---------------------------- MODULE Spec2Model ----------------------------
(***************************************************************************)
(* A model of the transmuxing and adaptive-delivery engine of hls.js:      *)
(*   - PassThroughRemuxer   (src/src/controller/timeline-controller.js)    *)
(*   - LevelController      (src/unnamed/part_000)                         *)
(*   - AudioStreamController (src/src/controller/audio-stream-controller.ts)*)
(*   - AACDemuxer           (src/src/demux/aacdemuxer.ts)                  *)
(*   - TimelineController   (src/src/controller/timeline-controller.js)    *)
(* Each component has its own specifications (SpecPTR, SpecLC, SpecASC,    *)
(* SpecAAC, SpecTimeline); the variables of the other components keep      *)
(* their initial values.                                                   *)
(***************************************************************************)
EXTENDS Integers, Sequences, FiniteSets, TLC

\* A value that may be undefined (or null, or not finite): None, or Some(v).
None == <<>>
Some(v) == <<v>>
Val(o) == o[1]

Min(a, b) == IF a <= b THEN a ELSE b
Max(a, b) == IF a >= b THEN a ELSE b

RECURSIVE Pow2(_)
Pow2(n) == IF n <= 0 THEN 1 ELSE 2 * Pow2(n - 1)

VARIABLES
  \* ---- PassThroughRemuxer fields
  emitInitSegment,  \* boolean
  initData,         \* None, or the parsed init data [audio, video]
  initPTS,          \* None, or a number
  initTracks,       \* None, or the TrackSet: the set of its keys
  lastEndDTS,       \* None, or a number
  \* ---- PassThroughRemuxer: what the calls were given and returned
  ptrCall,          \* the last call: its name and arguments
  ptrOut,           \* the RemuxerResult of the last remux call (None before)
  ptrLast,          \* the latest track emitted since the last resetTimeStamp,
                    \* with the duration of its payload (None if there is none)
  ptrPrev,          \* endDTS of the track emitted before ptrLast since the
                    \* last resetTimeStamp (None if there is none)
  ptrResetPending,  \* resetInitSegment was called and no remux call with
                    \* samples has been made since
  ptrRemuxed        \* a remux call has been made

VARIABLES
  \* ---- LevelController fields
  lcLevels,        \* this._levels: None, or Some(list of levels, from index 0)
  lcLevel,         \* this._level: None, or Some(index)
  manualLevel,     \* this._manualLevel (-1: automatic)
  firstLevel,      \* this._firstLevel: None, or Some(index)
  canload,         \* this.canload
  timer,           \* this.timer: None, or the handle of a timeout
  \* ---- LevelController: its surroundings
  timerLive,       \* the timeout this.timer names has neither fired nor been
                   \* cleared
  orphanTimers,    \* timeouts still pending that this.timer no longer names
  lcCall,          \* the last event handled: its name and data
  lcOut,           \* the events the last handler triggered, in order
  lcRun,           \* None, or Some([level, k, url0]): the k non-fatal load
                   \* errors handled back to back for the level, the first
                   \* of them with loadError = 0 and urlId = url0
  lcManifests      \* the manifests the playlist provider may deliver

VARIABLES
  \* ---- AudioStreamController fields
  state,            \* this.state
  levels,           \* this.levels: None, or Some(the details of tracks 0, 1)
  media,            \* this.media is set
  trackId,          \* this.trackId
  fragCurrent,      \* this.fragCurrent: None, or Some([level, sn])
  fragPrevious,     \* this.fragPrevious: None, or Some([level, sn])
  fragLoadError,    \* this.fragLoadError
  retryDate,        \* this.retryDate: None (0), or Some(ms left until it)
  audioSwitch,      \* this.audioSwitch
  appended,         \* this.appended
  pendingBuffering, \* this.pendingBuffering
  pendingData,      \* this.pendingData: the content of each append object
  videoTrackCC,     \* this.videoTrackCC
  audioInitPTS,     \* this.initPTS: the continuity counters cc for which
                    \* initPTS[cc] is finite
  \* ---- AudioStreamController: its surroundings
  jobs,             \* the fragments in flight, from the dispatch of the load
                    \* to the failure of the load or the last result of the
                    \* transmuxer; superseded: the audio track has been
                    \* switched since the dispatch
  ascResultOf,      \* the job the last handler was given a result of by
                    \* the transmuxer (None: it was given none)
  ascOut,           \* the events the last handler triggered, in order
  ascPos,           \* the position the tick the last handler ended with,
                    \* if any, read: the fragment media.currentTime lies
                    \* in (the last one from the end of the playlist on),
                    \* -1 before the start of the playlist
  ascNextLoadPosition,
                    \* this.nextLoadPosition as the last handler left it:
                    \* None, the value it had before the handler, or
                    \* Some(the end of the fragment its tick selected)
  ascSeeking,       \* the tick the last handler ended with, if any, read
                    \* media.seeking as true
  ascStreak,        \* None, or Some(k): k audio fragment loads have failed,
                    \* not fatally, since the last startLoad, and none has
                    \* succeeded
  ascPlaylists,     \* the playlists the playlist loader may deliver for an
                    \* alternate track
  ascVideoCCs,      \* the continuity counters of the video fragments
                    \* INIT_PTS_FOUND may come for
  maxMaxBufferLength  \* config.maxMaxBufferLength, in seconds: the fraction
                      \* num / den

ascVars == <<state, levels, media, trackId, fragCurrent, fragPrevious,
             fragLoadError, retryDate, audioSwitch, appended,
             pendingBuffering, pendingData, videoTrackCC, audioInitPTS,
             jobs, ascResultOf, ascOut, ascPos, ascNextLoadPosition,
             ascSeeking, ascStreak, ascPlaylists,
             ascVideoCCs,
             maxMaxBufferLength>>

VARIABLES
  \* ---- AACDemuxer fields
  cachedData,       \* this.cachedData: bytes
  frameIndex,       \* this.frameIndex
  audioTrack,       \* this._audioTrack: None, or Some(its samples)
  \* ---- AACDemuxer: its surroundings
  aacStream,        \* the bytes the session is fed
  aacFed,           \* how many of them demux has been given
  aacParsed,        \* the frames and ID3 tags demux has passed over, in
                    \* order, each with its bytes
  aacTaken,         \* the samples of the tracks resetInitSegment replaced
  aacLast           \* the last demux call: the bytes cached before it, the
                    \* bytes it was given, the samples it added (all 0 when
                    \* the last call was not demux)

aacVars == <<cachedData, frameIndex, audioTrack, aacStream, aacFed,
             aacParsed, aacTaken, aacLast>>

VARIABLES
  \* ---- TimelineController fields
  tcMedia,          \* this.media is set
  textTracks,       \* this.textTracks: for each entry the index (from 1) of
                    \* the text track in media.textTracks
  tcTracks,         \* this.tracks: the subtitle tracks of the manifest
  captionsTracks,   \* this.captionsTracks.textTrack1: None, or Some(index
                    \* of the text track in media.textTracks; 0: a track
                    \* that is not rendered natively)
  \* ---- TimelineController: its surroundings
  mediaTextTracks,  \* media.textTracks of the media element
  tcCall,           \* the last call on the controller, with its inputs
  tcOut,            \* the events the last call triggered
  tcSubtitles,      \* the lists data.subtitles may be
  tcConfig          \* config.enableWebVTT, config.renderNatively

timelineVars == <<tcMedia, textTracks, tcTracks, captionsTracks,
                  mediaTextTracks, tcCall, tcOut, tcSubtitles, tcConfig>>

lcVars == <<lcLevels, lcLevel, manualLevel, firstLevel, canload, timer,
            timerLive, orphanTimers, lcCall, lcOut, lcRun,
            lcManifests>>

ptrVars == <<emitInitSegment, initData, initPTS, initTracks, lastEndDTS,
             ptrCall, ptrOut, ptrLast, ptrPrev, ptrResetPending,
             ptrRemuxed>>

(***************************************************************************)
(*                          PassThroughRemuxer                             *)
(***************************************************************************)
\* Bounds of the remuxer's inputs.
MaxDur == 1        \* largest getDuration(data, initData) of a payload
MaxOffset == 1     \* largest timeOffset handed to remux
MaxDTS == 3        \* remux is not called once lastEndDTS would pass this

\* A payload (videoTrack.samples): empty, or bytes of which mp4-tools reports
\* the duration, the first decode timestamp and whether they hold a moov box
\* with an audio and/or a video track.
Payloads ==
  [len : {0}, dur : {0}, start : {0}, audio : {FALSE}, video : {FALSE}] \cup
  [len : {1}, dur : 0..MaxDur, start : 0..1, audio : BOOLEAN, video : BOOLEAN]

\* An init segment handed to resetInitSegment: absent/empty, or bytes.
InitSegments ==
  [len : {0}, audio : {FALSE}, video : {FALSE}] \cup
  [len : {1}, audio : BOOLEAN, video : BOOLEAN]

\* parseInitSegment: which tracks the bytes declare.
parseInitSegment(bytes) == [audio |-> bytes.audio, video |-> bytes.video]

\* generateInitSegment: the initData it stores.
generateInitSegment_initData(bytes) ==
  IF bytes.len = 0 THEN None ELSE Some(parseInitSegment(bytes))

\* generateInitSegment: the initTracks it stores.
generateInitSegment_initTracks(bytes) ==
  IF bytes.len = 0 THEN None
  ELSE LET d == parseInitSegment(bytes) IN
       Some(IF d.audio /\ d.video THEN {"audiovideo"}
            ELSE (IF d.audio THEN {"audio"} ELSE {}) \cup
                 (IF d.video THEN {"video"} ELSE {}))

computeInitPTS(data, timeOffset) == data.start - timeOffset

notPTR == <<lcVars, ascVars, aacVars, timelineVars>>
notLC == <<ptrVars, ascVars, aacVars, timelineVars>>
notASC == <<ptrVars, lcVars, aacVars, timelineVars>>
notAAC == <<ptrVars, lcVars, ascVars, timelineVars>>
notTimeline == <<ptrVars, lcVars, ascVars, aacVars>>

InitPTR ==
  /\ emitInitSegment = FALSE
  /\ initData = None
  /\ initPTS = None
  /\ initTracks = None
  /\ lastEndDTS = None
  /\ ptrCall = [op |-> "new", empty |-> TRUE, timeOffset |-> 0,
                contiguous |-> TRUE]
  /\ ptrOut = None
  /\ ptrLast = None
  /\ ptrPrev = None
  /\ ptrResetPending = FALSE
  /\ ptrRemuxed = FALSE

\* resetTimeStamp (defaultInitPTS)
ResetTimeStamp ==
  \E defaultInitPTS \in {None} \cup {Some(n) : n \in 0..1} :
    /\ initPTS' = defaultInitPTS
    /\ lastEndDTS' = None
    /\ ptrCall' = [ptrCall EXCEPT !.op = "resetTimeStamp"]
    /\ ptrLast' = None
    /\ ptrPrev' = None
    /\ UNCHANGED <<emitInitSegment, initData, initTracks, ptrOut,
                   ptrResetPending, ptrRemuxed>>
    /\ UNCHANGED notPTR

\* resetInitSegment (initSegment, audioCodec, videoCodec)
ResetInitSegment ==
  \E initSegment \in InitSegments :
    /\ initData' = generateInitSegment_initData(initSegment)
    /\ initTracks' = generateInitSegment_initTracks(initSegment)
    /\ emitInitSegment' = TRUE
    /\ ptrCall' = [ptrCall EXCEPT !.op = "resetInitSegment"]
    /\ ptrResetPending' = TRUE
    /\ UNCHANGED <<initPTS, lastEndDTS, ptrOut, ptrLast, ptrPrev, ptrRemuxed>>
    /\ UNCHANGED notPTR

\* remux: "if (!Number.isFinite(lastEndDTS)) lastEndDTS = timeOffset || 0"
remux_lastEndDTS(cur, timeOffset) ==
  IF cur = None THEN timeOffset ELSE Val(cur)

\* A remuxer that anchors every segment to the supplied timeOffset.
remux_startDTS_Offset(cur, timeOffset, contiguous) == timeOffset

\* remux: the start DTS of the emitted segment, "startDTS = lastEndDTS". The
\* contiguous flag is a parameter of remux that its body never reads.
remux_startDTS(cur, timeOffset, contiguous) == remux_lastEndDTS(cur, timeOffset)

\* remux: "if (this.emitInitSegment) initSegment.tracks = this.initTracks"
remux_tracks(emit, tracks) == IF emit THEN tracks ELSE None

\* A remuxer that never clears emitInitSegment.
remux_emitAfter_Keep(emit) == emit

\* remux: emitInitSegment after a call with samples.
remux_emitAfter(emit) == FALSE

\* A remuxer that answers a payload without samples with an init segment.
remux_emptyResult_WithInit ==
  [audio |-> None, video |-> None,
   initSegment |-> Some([tracks |-> None, initPTS |-> None])]

\* remux: the result for a payload without samples.
remux_emptyResult == [audio |-> None, video |-> None, initSegment |-> None]

\* remux: the RemuxedTrack, returned as audio when the init data declares
\* audio only and as video otherwise.
remux_result(iData, startDTS, endDTS, tracks, newInitPTS) ==
  LET track == [startPTS |-> startDTS, startDTS |-> startDTS,
                endPTS |-> endDTS, endDTS |-> endDTS]
      audioOnly == iData.audio /\ ~iData.video
  IN [audio |-> IF audioOnly THEN Some(track) ELSE None,
      video |-> IF ~audioOnly THEN Some(track) ELSE None,
      initSegment |-> Some([tracks |-> tracks, initPTS |-> newInitPTS])]

\* remux (audioTrack, videoTrack, id3Track, textTrack, timeOffset, contiguous,
\*        accurateTimeOffset)
Remux ==
  \E data \in Payloads, timeOffset \in 0..MaxOffset, contiguous \in BOOLEAN :
    LET last == remux_lastEndDTS(lastEndDTS, timeOffset) IN
    /\ data.len > 0 => last + data.dur <= MaxDTS
    /\ ptrRemuxed' = TRUE
    /\ UNCHANGED notPTR
    /\ IF data.len = 0
       THEN /\ lastEndDTS' = Some(last)
            /\ ptrOut' = Some(remux_emptyResult)
            /\ ptrCall' = [op |-> "remux", empty |-> TRUE,
                           timeOffset |-> timeOffset,
                           contiguous |-> contiguous]
            /\ UNCHANGED <<emitInitSegment, initData, initPTS, initTracks,
                           ptrLast, ptrPrev, ptrResetPending>>
       ELSE LET iData == IF initData = None
                         THEN generateInitSegment_initData(data) ELSE initData
                iTracks == IF initData = None
                           THEN generateInitSegment_initTracks(data)
                           ELSE initTracks
                newInitPTS == IF initPTS = None
                              THEN Some(computeInitPTS(data, timeOffset))
                              ELSE None
                duration == data.dur
                startDTS == remux_startDTS(lastEndDTS, timeOffset, contiguous)
                endDTS == duration + startDTS
            IN /\ initData' = iData
               /\ initTracks' = iTracks
               /\ emitInitSegment' =
                    (IF emitInitSegment THEN remux_emitAfter(emitInitSegment)
                     ELSE emitInitSegment)
               /\ initPTS' = IF initPTS = None THEN newInitPTS ELSE initPTS
               /\ lastEndDTS' = Some(endDTS)
               /\ ptrOut' = Some(remux_result(Val(iData), startDTS, endDTS,
                                  remux_tracks(emitInitSegment, iTracks),
                                  newInitPTS))
               /\ ptrCall' = [op |-> "remux", empty |-> FALSE,
                              timeOffset |-> timeOffset,
                              contiguous |-> contiguous]
               /\ ptrLast' = Some([startDTS |-> startDTS, endDTS |-> endDTS,
                                   duration |-> duration])
               /\ ptrPrev' = IF ptrLast = None THEN None
                             ELSE Some(Val(ptrLast).endDTS)
               /\ ptrResetPending' = FALSE

NextPTR == ResetTimeStamp \/ ResetInitSegment \/ Remux

(***************************************************************************)
(*                            LevelController                              *)
(***************************************************************************)
\* Bounds of the level controller's surroundings.
MaxLoadError == 2    \* no further error is delivered for a level whose
                     \* loadError has reached this

\* hls.config.levelLoadingRetryDelay, in ms.
levelLoadingRetryDelay == 1000

\* Program constants of onLevelLoaded.
MsPerSecond == 1000
MinReloadInterval == 1000

ManifestLengths == 1..3
Bitrates == {1, 2}
EndSNs == {0, 1}
LevelInputs == -1..1
OrphanCounts == 0..1                 \* pending timeouts that this.timer no
                                     \* longer names

\* What a live playlist load brings: details.targetduration in seconds,
\* 1000 * details.averagetargetduration (0: the playlist gives none), and
\* performance.now() - stats.trequest in half milliseconds.
Reloads ==
  {[targetduration |-> 1, avgMs |-> 0, latency2 |-> 1],
   [targetduration |-> 3, avgMs |-> 0, latency2 |-> 2001],
   [targetduration |-> 3, avgMs |-> 1500, latency2 |-> 1],
   [targetduration |-> 1, avgMs |-> 3000, latency2 |-> 2001]}
NoReload == [targetduration |-> 0, avgMs |-> 0, latency2 |-> 0]
ErrorKinds == {"frag", "audioFrag", "level", "remux", "other"}
ErrorTypes == {"networkError", "mediaError"}

\* One entry of data.levels; a codec is absent, supported or not supported
\* (isCodecSupportedInMp4).
ManifestEntries ==
  [bitrate : Bitrates, videoCodec : {"ok", "none", "bad"},
   audioCodec : {"ok", "bad"}]

Manifests == UNION {[1..n -> ManifestEntries] : n \in ManifestLengths}

\* The manifests of a stream with one bitrate and at most two sources.
OneBitrateManifests ==
  {m \in Manifests :
     /\ Len(m) <= 2
     /\ \A i \in 1..Len(m) :
          /\ m[i].bitrate = 1
          /\ m[i].videoCodec # "none"
          /\ m[i].audioCodec = "ok"}

\* The manifests of a stream with two bitrates, the higher or the lower one
\* first, and one or two sources of the higher one.
TwoBitrateManifests ==
  {m \in Manifests :
     /\ \E i, j \in 1..Len(m) : m[i].bitrate # m[j].bitrate
     /\ \A i \in 1..Len(m) : m[i].videoCodec = "ok" /\ m[i].audioCodec = "ok"
     /\ Len(m) = 3 => (m[2].bitrate = 2 /\ m[3].bitrate = 2)}

\* Manifests of one or two entries in which at most one codec of an entry is
\* not supported, and those manifests with a second source of the higher
\* bitrate, its codecs supported, added as third entry.
CodecManifests ==
  {m \in Manifests :
     /\ \A i \in 1..Len(m) : m[i].videoCodec = "ok" \/ m[i].audioCodec = "ok"
     /\ Len(m) = 3 =>
          /\ m[1].bitrate = 2 /\ m[2].bitrate = 1 /\ m[3].bitrate = 2
          /\ m[3].videoCodec = "ok" /\ m[3].audioCodec = "ok"}

\* An event triggered on the bus.
Ev(name, level, id) == [ev |-> name, level |-> level, id |-> id]

\* levels[i], list indices starting at 0.
LevelAt(ls, i) == ls[i + 1]
ValidLevel(i) == lcLevels # None /\ i >= 0 /\ i < Len(Val(lcLevels))
LevelIndices == IF lcLevels = None THEN {} ELSE 0..(Len(Val(lcLevels)) - 1)

\* The last call on the controller, with the inputs it was given (and, for an
\* error, the flags the handler wrote on the event).
NoCall ==
  [op |-> "new", level |-> -1, kind |-> "", fatal |-> FALSE,
   levelRetry |-> FALSE, mediaBuffered |-> FALSE, current |-> FALSE,
   live |-> FALSE, endSN |-> 0, reload |-> NoReload]

InitLC ==
  /\ lcLevels = None
  /\ lcLevel = None
  /\ manualLevel = -1
  /\ firstLevel = None
  /\ canload = FALSE
  /\ timer = None
  /\ timerLive = FALSE
  /\ orphanTimers = 0
  /\ lcCall = NoCall
  /\ lcOut = <<>>
  /\ lcRun = None

\* onManifestLoaded: the level made of the first manifest entry of a bitrate.
\* A URL is named by the place of its entry in the manifest.
NewLevel(e, i) ==
  [bitrate |-> e.bitrate, videoCodec |-> e.videoCodec,
   audioCodec |-> e.audioCodec, url |-> <<i>>, urlId |-> 0, loadError |-> 0,
   fragmentError |-> FALSE, details |-> None]

\* onManifestLoaded: "regroup redundant levels together".
RECURSIVE Regroup(_, _, _)
Regroup(entries, i, acc) ==
  IF i > Len(entries) THEN acc
  ELSE LET e == entries[i]
           js == {j \in 1..Len(acc) : acc[j].bitrate = e.bitrate}
       IN IF js = {}
          THEN Regroup(entries, i + 1, Append(acc, NewLevel(e, i)))
          ELSE LET j == CHOOSE j \in js : TRUE
               IN Regroup(entries, i + 1,
                          [acc EXCEPT ![j].url = Append(@, i)])

FilterLevels_All(entries, ls) == ls

\* onManifestLoaded: the two filters on the regrouped levels.
FilterLevels(entries, ls) ==
  LET videoCodecFound == \E i \in 1..Len(entries) : entries[i].videoCodec # "none"
      audioCodecFound == \E i \in 1..Len(entries) : entries[i].audioCodec # "none"
      keepVideo(l) == ~(videoCodecFound /\ audioCodecFound) \/ l.videoCodec # "none"
      supported(l) == l.audioCodec # "bad" /\ l.videoCodec # "bad"
  IN SelectSeq(SelectSeq(ls, keepVideo), supported)

\* onManifestLoaded: levels.sort by ascending bitrate.
RECURSIVE SortByBitrate(_)
SortByBitrate(ls) ==
  IF Len(ls) <= 1 THEN ls
  ELSE LET m == CHOOSE j \in 1..Len(ls) :
                  \A k \in 1..Len(ls) :
                    ls[j].bitrate < ls[k].bitrate
                    \/ (ls[j].bitrate = ls[k].bitrate /\ j <= k)
           rest == SubSeq(ls, 1, m - 1) \o SubSeq(ls, m + 1, Len(ls))
       IN <<ls[m]>> \o SortByBitrate(rest)

FirstLevelOf_Highest(sorted, bitrateStart) == Len(sorted) - 1

\* onManifestLoaded: the index, in the sorted list, of the start bitrate.
FirstLevelOf(sorted, bitrateStart) ==
  (CHOOSE j \in 1..Len(sorted) :
     /\ sorted[j].bitrate = bitrateStart
     /\ \A k \in 1..(j - 1) : sorted[k].bitrate # bitrateStart) - 1

\* The handle setTimeout returns.
TimerHandle == Some("timeout")

\* cleanTimer ()
cleanTimer_timer == None
cleanTimer_timerLive == FALSE

\* "this.timer = setTimeout(...)": the timeout the handle named before, if
\* still pending, stays pending.
ArmOrphans == IF timerLive THEN orphanTimers + 1 ELSE orphanTimers

\* tick (): the events it triggers.
tick_out(ls, cur, load) ==
  IF cur # None /\ load /\ Val(cur) < Len(ls)
  THEN <<Ev("LEVEL_LOADING", Val(cur), LevelAt(ls, Val(cur)).urlId)>>
  ELSE <<>>

\* onManifestLoaded (data), data.levels being entries.
OnManifestLoadedOf(entries) ==
    LET filtered == FilterLevels(entries, Regroup(entries, 1, <<>>))
        sorted == SortByBitrate(filtered)
    IN /\ lcRun' = None
       /\ lcCall' = [NoCall EXCEPT !.op = "manifestLoaded"]
       /\ IF Len(filtered) > 0
          THEN /\ lcLevels' = Some(sorted)
               /\ firstLevel' = Some(FirstLevelOf(sorted, filtered[1].bitrate))
               /\ lcOut' = <<Ev("MANIFEST_PARSED", Len(sorted),
                                Val(firstLevel'))>>
          ELSE /\ lcOut' = <<Ev("ERROR_MANIFEST_INCOMPATIBLE_CODECS", -1, -1)>>
               /\ UNCHANGED <<lcLevels, firstLevel>>
       /\ UNCHANGED <<lcLevel, manualLevel, canload, timer, timerLive,
                      orphanTimers, lcManifests>>
       /\ UNCHANGED notLC

\* onManifestLoaded (data)
OnManifestLoaded == \E entries \in lcManifests : OnManifestLoadedOf(entries)

\* startLoad ()
LCStartLoad ==
  /\ canload' = TRUE
  /\ lcLevels' =
       IF lcLevels = None THEN None
       ELSE Some([j \in 1..Len(Val(lcLevels)) |->
                   [Val(lcLevels)[j] EXCEPT
                      !.loadError = 0,
                      !.details = IF @ # None /\ Val(@).live THEN None ELSE @]])
  /\ lcOut' = IF timer # None /\ lcLevels # None
              THEN tick_out(Val(lcLevels'), lcLevel, TRUE) ELSE <<>>
  /\ lcCall' = [NoCall EXCEPT !.op = "startLoad"]
  /\ lcRun' = None
  /\ UNCHANGED <<lcLevel, manualLevel, firstLevel, timer, timerLive,
                 orphanTimers, lcManifests>>
  /\ UNCHANGED notLC

\* stopLoad ()
LCStopLoad ==
  /\ canload' = FALSE
  /\ lcOut' = <<>>
  /\ lcCall' = [NoCall EXCEPT !.op = "stopLoad"]
  /\ lcRun' = None
  /\ UNCHANGED <<lcLevels, lcLevel, manualLevel, firstLevel, timer, timerLive,
                 orphanTimers, lcManifests>>
  /\ UNCHANGED notLC

setLevelInternal_loads_Uncached(level) == level.details = None

\* setLevelInternal: "check if we need to load playlist for this level".
setLevelInternal_loads(level) ==
  level.details = None \/ Val(level.details).live

\* setLevelInternal (newLevel), reached through the level setter: the fields
\* it leaves and the events it triggers.  The ERROR it triggers for an invalid
\* index comes back to onError as a non-fatal error that names no level.
setLevelInternal(newLevel, then) ==
  LET ls == Val(lcLevels)
      level == LevelAt(ls, newLevel)
      switch == IF lcLevel # Some(newLevel)
                THEN <<Ev("LEVEL_SWITCH", newLevel, -1),
                       Ev("LEVEL_SWITCHING", newLevel, -1)>>
                ELSE <<>>
      load == IF setLevelInternal_loads(level)
              THEN <<Ev("LEVEL_LOADING", newLevel, level.urlId)>>
              ELSE <<>>
  IN IF newLevel >= 0 /\ newLevel < Len(ls)
     THEN /\ timer' = cleanTimer_timer
          /\ timerLive' = cleanTimer_timerLive
          /\ lcLevel' = Some(newLevel)
          /\ lcOut' = switch \o load \o then
     ELSE /\ lcOut' = <<Ev("ERROR_LEVEL_SWITCH", newLevel, -1)>> \o then
          /\ UNCHANGED <<timer, timerLive, lcLevel>>

level_inList_Any(ls, newLevel) == TRUE

\* set level: "levels.length > newLevel"
level_inList(ls, newLevel) == Len(ls) > newLevel

\* set level (newLevel); then: what the caller triggers after it.
level_set(newLevel, then) ==
  IF /\ lcLevels # None
     /\ level_inList(Val(lcLevels), newLevel)
     /\ (lcLevel = Some(newLevel)
           => LevelAt(Val(lcLevels), newLevel).details = None)
  THEN setLevelInternal(newLevel, then)
  ELSE /\ lcOut' = then
       /\ UNCHANGED <<timer, timerLive, lcLevel>>

\* hls.currentLevel / hls.loadLevel = newLevel
SetLevel ==
  \E newLevel \in LevelInputs :
    /\ level_set(newLevel, <<>>)
    /\ lcCall' = [NoCall EXCEPT !.op = "setLevel", !.level = newLevel]
    /\ lcRun' = None
    /\ UNCHANGED <<lcLevels, manualLevel, firstLevel, canload, orphanTimers, lcManifests>>
    /\ UNCHANGED notLC

\* set manualLevel (newLevel); _startLevel, which nothing here reads, is left
\* out.
SetManualLevel ==
  \E newLevel \in LevelInputs :
    /\ manualLevel' = newLevel
    /\ IF newLevel # -1
       THEN level_set(newLevel, <<>>)
       ELSE /\ lcOut' = <<>>
            /\ UNCHANGED <<timer, timerLive, lcLevel>>
    /\ lcCall' = [NoCall EXCEPT !.op = "setManualLevel", !.level = newLevel]
    /\ lcRun' = None
    /\ UNCHANGED <<lcLevels, firstLevel, canload, orphanTimers, lcManifests>>
    /\ UNCHANGED notLC

nextLoadLevel_Auto(nextAutoLevel) == nextAutoLevel

\* get nextLoadLevel (), where hls.nextAutoLevel reads as nextAutoLevel
nextLoadLevel(nextAutoLevel) ==
  IF manualLevel # -1 THEN manualLevel ELSE nextAutoLevel

\* set nextLoadLevel (nextLevel)
SetNextLoadLevel ==
  \E nextLevel \in LevelInputs :
    /\ level_set(nextLevel, IF manualLevel = -1
                             THEN <<Ev("nextAutoLevel", nextLevel, -1)>>
                             ELSE <<>>)
    /\ lcCall' = [NoCall EXCEPT !.op = "setNextLoadLevel", !.level = nextLevel]
    /\ lcRun' = None
    /\ UNCHANGED <<lcLevels, manualLevel, firstLevel, canload, orphanTimers,
                   lcManifests>>
    /\ UNCHANGED notLC

\* onError: "if any redundant streams available and if we haven't try them
\* all"; loadError is the counter after its increment.
onError_rotatesUpTo(redundantLevels, loadError) ==
  redundantLevels > 1 /\ loadError <= redundantLevels

onError_rotates(redundantLevels, loadError) ==
  redundantLevels > 1 /\ loadError < redundantLevels

onError_switchesDown_Pinned(manual, levelIndex) == levelIndex # 0

\* onError: "we could try to recover if in auto mode and current level not
\* lowest level (0)".
onError_switchesDown(manual, levelIndex) == manual = -1 /\ levelIndex # 0

\* onError: the level after the error has been counted and, where a redundant
\* URL is left, after the switch to it.
onError_level(level, fragmentError) ==
  LET counted == [level EXCEPT !.loadError = @ + 1,
                               !.fragmentError = fragmentError]
      redundantLevels == Len(level.url)
  IN IF onError_rotates(redundantLevels, counted.loadError)
     THEN [counted EXCEPT !.urlId = (@ + 1) % redundantLevels,
                          !.details = None]
     ELSE counted

\* The run of back-to-back errors on one level that began with its loadError
\* at 0: the level, the errors so far and the urlId the run began with.
RunAfterError(levelIndex, level) ==
  IF lcRun # None /\ Val(lcRun).level = levelIndex
  THEN Some([Val(lcRun) EXCEPT !.k = @ + 1])
  ELSE IF level.loadError = 0
       THEN Some([level |-> levelIndex, k |-> 1, url0 |-> level.urlId])
       ELSE None

\* onError (data)
LCOnError ==
  \E fatal \in BOOLEAN, type \in ErrorTypes, kind \in ErrorKinds,
     levelIndex \in LevelInputs, mediaBuffered \in BOOLEAN :
    LET fragmentError == kind \in {"frag", "audioFrag"}
        levelError == kind = "level"
        ls == Val(lcLevels)
        level == LevelAt(ls, levelIndex)
        after == onError_level(level, fragmentError)
        rotated == onError_rotates(Len(level.url), after.loadError)
        switchDown == ~rotated /\ onError_switchesDown(manualLevel, levelIndex)
        onLive == /\ ~rotated /\ ~switchDown
                  /\ after.details # None /\ Val(after.details).live
        retry == /\ ~rotated /\ ~switchDown /\ ~onLive
                 /\ levelError /\ mediaBuffered
        giveUp == /\ ~rotated /\ ~switchDown /\ ~onLive
                  /\ levelError /\ ~mediaBuffered
    IN IF fatal
       THEN /\ kind = "other" /\ levelIndex = -1 /\ ~mediaBuffered
            /\ IF type = "networkError"
               THEN /\ timer' = cleanTimer_timer
                    /\ timerLive' = cleanTimer_timerLive
               ELSE UNCHANGED <<timer, timerLive>>
            /\ lcCall' = [NoCall EXCEPT !.op = "error", !.kind = kind,
                                        !.fatal = TRUE]
            /\ lcOut' = <<>>
            /\ lcRun' = None
            /\ UNCHANGED <<lcLevels, lcLevel, manualLevel, firstLevel, canload,
                           orphanTimers, lcManifests>>
            /\ UNCHANGED notLC
       ELSE IF kind = "other"
       THEN /\ type = "networkError" /\ levelIndex = -1 /\ ~mediaBuffered
            /\ lcCall' = [NoCall EXCEPT !.op = "error", !.kind = kind]
            /\ lcOut' = <<>>
            /\ lcRun' = None
            /\ UNCHANGED <<lcLevels, lcLevel, manualLevel, firstLevel, canload,
                           timer, timerLive, orphanTimers, lcManifests>>
            /\ UNCHANGED notLC
       ELSE /\ type = "networkError"
            /\ ValidLevel(levelIndex)
            /\ mediaBuffered => levelError
            /\ level.loadError < MaxLoadError
            /\ retry => ArmOrphans \in OrphanCounts
            /\ lcLevels' = Some([ls EXCEPT ![levelIndex + 1] = after])
            /\ lcLevel' = IF (onLive /\ levelError) \/ giveUp THEN None
                          ELSE lcLevel
            /\ timer' = IF retry THEN TimerHandle
                        ELSE IF giveUp THEN cleanTimer_timer ELSE timer
            /\ timerLive' = IF retry THEN TRUE
                            ELSE IF giveUp THEN cleanTimer_timerLive
                            ELSE timerLive
            /\ orphanTimers' = IF retry THEN ArmOrphans ELSE orphanTimers
            /\ lcCall' = [NoCall EXCEPT !.op = "error", !.kind = kind,
                                        !.level = levelIndex,
                                        !.mediaBuffered = mediaBuffered,
                                        !.levelRetry = retry,
                                        !.fatal = giveUp]
            /\ lcOut' = IF switchDown
                        THEN <<Ev("nextAutoLevel", Max(0, levelIndex - 1), -1)>>
                        ELSE IF retry
                        THEN <<Ev("setTimeout", levelLoadingRetryDelay, -1)>>
                        ELSE <<>>
            /\ lcRun' = RunAfterError(levelIndex, level)
            /\ UNCHANGED <<manualLevel, firstLevel, canload, lcManifests>>
            /\ UNCHANGED notLC

\* onFragLoaded ({frag})
LCOnFragLoaded ==
  \E fragType \in {"main", "audio"}, fragLevel \in LevelInputs :
    /\ fragLevel >= 0
    /\ lcLevels # None
    /\ lcLevels' =
         IF fragType = "main" /\ fragLevel < Len(Val(lcLevels))
         THEN Some([Val(lcLevels) EXCEPT
                      ![fragLevel + 1] = [@ EXCEPT !.fragmentError = FALSE,
                                                   !.loadError = 0]])
         ELSE lcLevels
    /\ lcCall' = [NoCall EXCEPT !.op = "fragLoaded", !.kind = fragType,
                                !.level = fragLevel]
    /\ lcOut' = <<>>
    /\ lcRun' = None
    /\ UNCHANGED <<lcLevel, manualLevel, firstLevel, canload, timer, timerLive,
                   orphanTimers, lcManifests>>
    /\ UNCHANGED notLC

\* Math.round of a number given in halves.
MathRound2(x2) == (x2 + 1) \div 2

\* onLevelLoaded: the reload interval in ms, from targetduration (s),
\* 1000 * averagetargetduration (0: none), whether endSN is that of the stored
\* details, and the time since the request in half milliseconds.
onLevelLoaded_reloadInterval_NoAverage(targetduration, avgMs, sameEndSN, latency2) ==
  LET whole2 == 2 * (MsPerSecond * targetduration)
      interval2 == IF sameEndSN THEN whole2 \div 2 ELSE whole2
  IN Max(MinReloadInterval, MathRound2(interval2 - latency2))

onLevelLoaded_reloadInterval(targetduration, avgMs, sameEndSN, latency2) ==
  LET whole2 == 2 * (IF avgMs # 0 THEN avgMs
                     ELSE MsPerSecond * targetduration)
      interval2 == IF sameEndSN THEN whole2 \div 2 ELSE whole2
  IN Max(MinReloadInterval, MathRound2(interval2 - latency2))

\* The stream controller's handler of the same event, which runs after the
\* level controller's: it stores the details on the level.
streamController_storeDetails(level, newDetails) ==
  [level EXCEPT !.details = Some(newDetails)]

\* onLevelLoaded (data)
OnLevelLoaded ==
  \E levelId \in LevelIndices, live \in BOOLEAN, endSN \in EndSNs,
     reload \in Reloads \cup {NoReload} :
    LET ls == Val(lcLevels)
        curLevel == LevelAt(ls, levelId)
        current == lcLevel = Some(levelId)
        arms == current /\ live
        counted == IF current /\ ~curLevel.fragmentError
                   THEN [curLevel EXCEPT !.loadError = 0] ELSE curLevel
        curDetails == curLevel.details
        sameEndSN == curDetails # None /\ endSN = Val(curDetails).endSN
        newDetails == [live |-> live, endSN |-> endSN]
        reloadInterval ==
          onLevelLoaded_reloadInterval(reload.targetduration, reload.avgMs,
                                       sameEndSN, reload.latency2)
    IN /\ arms <=> reload # NoReload
       /\ ~live => endSN = 0
       /\ arms => ArmOrphans \in OrphanCounts
       /\ IF arms
          THEN /\ timer' = TimerHandle
               /\ timerLive' = TRUE
               /\ orphanTimers' = ArmOrphans
               /\ lcOut' = <<Ev("setTimeout", reloadInterval, -1)>>
          ELSE IF current
          THEN /\ timer' = cleanTimer_timer
               /\ timerLive' = cleanTimer_timerLive
               /\ lcOut' = <<>>
               /\ UNCHANGED orphanTimers
          ELSE /\ lcOut' = <<>>
               /\ UNCHANGED <<timer, timerLive, orphanTimers>>
       /\ lcLevels' = Some([ls EXCEPT ![levelId + 1] =
                              streamController_storeDetails(counted, newDetails)])
       /\ lcCall' = [NoCall EXCEPT
                       !.op = "levelLoaded", !.level = levelId,
                       !.current = current, !.live = live, !.endSN = endSN,
                       !.reload = reload]
       /\ lcRun' = None
       /\ UNCHANGED <<lcLevel, manualLevel, firstLevel, canload, lcManifests>>
       /\ UNCHANGED notLC

\* onLevelRemoved (data)
OnLevelRemoved ==
  \E removed \in LevelIndices :
    /\ lcLevels' = Some(SubSeq(Val(lcLevels), 1, removed)
                        \o SubSeq(Val(lcLevels), removed + 2,
                                  Len(Val(lcLevels))))
    /\ lcCall' = [NoCall EXCEPT !.op = "levelRemoved", !.level = removed]
    /\ lcOut' = <<>>
    /\ lcRun' = None
    /\ UNCHANGED <<lcLevel, manualLevel, firstLevel, canload, timer, timerLive,
                   orphanTimers, lcManifests>>
    /\ UNCHANGED notLC

\* The timeout this.timer names expires: () => this.tick().
TimerFires ==
  /\ timerLive
  /\ timerLive' = FALSE
  /\ lcOut' = IF lcLevels = None THEN <<>>
              ELSE tick_out(Val(lcLevels), lcLevel, canload)
  /\ lcCall' = [NoCall EXCEPT !.op = "timer"]
  /\ lcRun' = None
  /\ UNCHANGED <<lcLevels, lcLevel, manualLevel, firstLevel, canload, timer,
                 orphanTimers, lcManifests>>
  /\ UNCHANGED notLC

\* A timeout armed earlier and never cleared expires: () => this.tick().
OrphanTimerFires ==
  /\ orphanTimers > 0
  /\ orphanTimers' = orphanTimers - 1
  /\ lcOut' = IF lcLevels = None THEN <<>>
              ELSE tick_out(Val(lcLevels), lcLevel, canload)
  /\ lcCall' = [NoCall EXCEPT !.op = "orphanTimer"]
  /\ lcRun' = None
  /\ UNCHANGED <<lcLevels, lcLevel, manualLevel, firstLevel, canload, timer,
                 timerLive, lcManifests>>
  /\ UNCHANGED notLC

NextLC ==
  \/ OnManifestLoaded
  \/ LCStartLoad
  \/ LCStopLoad
  \/ SetLevel
  \/ SetManualLevel
  \/ SetNextLoadLevel
  \/ LCOnError
  \/ LCOnFragLoaded
  \/ OnLevelLoaded
  \/ OnLevelRemoved
  \/ TimerFires
  \/ OrphanTimerFires

(***************************************************************************)
(*                         AudioStreamController                           *)
(*                                                                         *)
(* The audio tracks are track 0, the audio of the main stream (no URL of   *)
(* its own, so no playlist is loaded for it), and track 1, an alternate    *)
(* track whose playlist is a VOD playlist with the fragments of sequence   *)
(* numbers 0..endSN, fragment sn lasting from sn to sn + 1, all of         *)
(* continuity counter 0 and without an init segment.  A fragment of a      *)
(* track has the track's id as its level.                                  *)
(*                                                                         *)
(* Positions (startPosition, nextLoadPosition, lastCurrentTime) and the    *)
(* buffers (mediaBuffer, videoBuffer, loadedmetadata, which onBufferReset  *)
(* and onBufferCreated set) only feed what a tick reads of the buffer,     *)
(* which is given to each tick as one of the TickReads;                    *)
(* config.startFragPrefetch is off and config.autoStartLoad is on.         *)
(*                                                                         *)
(* A fragment whose load has been dispatched is in jobs until its load     *)
(* fails or the transmuxer delivers its last result;                       *)
(* _handleFragmentLoadProgress, which only hands the payload to the        *)
(* transmuxer, is part of that.                                            *)
(***************************************************************************)
\* hls.config
fragLoadingMaxRetry == 2
fragLoadingRetryDelay == 1000
fragLoadingMaxRetryTimeout == 1500
\* config.maxBufferLength, in seconds
maxBufferLength == 4

Tracks == 0..1
AltTracks == {1}
\* The lengths pendingData is followed up to.
PendingLengths == 0..2

\* A config.maxMaxBufferLength below config.maxBufferLength, and one above.
MaxMaxBelow == [num |-> 1, den |-> 1]
MaxMaxAbove == [num |-> 8, den |-> 1]

\* A playlist of one fragment whose key need not be loaded.  PTSKnown is
\* followed for live playlists, for which doTick reads it; a playlist that is
\* not live starts at position 0, so that no position is before its start.
PlainPlaylists ==
  {[endSN |-> 0, encrypted |-> FALSE, live |-> FALSE, PTSKnown |-> FALSE]}

\* That playlist, and one of one fragment whose key is to be loaded.
KeyPlaylists ==
  PlainPlaylists
    \cup {[endSN |-> 0, encrypted |-> TRUE, live |-> FALSE,
            PTSKnown |-> FALSE]}

\* A live playlist of two fragments.
LivePlaylists ==
  {[endSN |-> 1, encrypted |-> FALSE, live |-> TRUE, PTSKnown |-> FALSE]}

\* What a tick reads of its surroundings: whether the audio buffer is shorter
\* than maxBufLen, the fragment boundary the buffer ends at (bufferInfo.end),
\* whether the fragment tracker knows the chosen fragment
\* (getState(frag) # NOT_LOADED), whether the last fragment is buffered
\* (_streamEnded), and media.seeking.
TickReads(endSN) ==
  [bufferLow : BOOLEAN, bufferEnd : 0..(endSN + 1), pos : -1..(endSN + 1),
   tracked : BOOLEAN, ended : BOOLEAN, seeking : BOOLEAN]
NoRead ==
  [bufferLow |-> FALSE, bufferEnd |-> 0, pos |-> 0, tracked |-> FALSE,
   ended |-> FALSE, seeking |-> FALSE]

\* The fields of the controller, with the jobs in flight and the events
\* triggered so far by the handler that runs.
Ctl ==
  [state |-> state, levels |-> levels, media |-> media, trackId |-> trackId,
   fragCurrent |-> fragCurrent, fragPrevious |-> fragPrevious,
   fragLoadError |-> fragLoadError, retryDate |-> retryDate,
   audioSwitch |-> audioSwitch, appended |-> appended,
   pendingBuffering |-> pendingBuffering, pendingData |-> pendingData,
   videoTrackCC |-> videoTrackCC, initPTS |-> audioInitPTS,
   jobs |-> jobs, nextLoadPosition |-> None,
   maxMaxBufferLength |-> maxMaxBufferLength, out |-> <<>>]

\* The handler returns with the fields as in c.
Commit(c) ==
  /\ state' = c.state
  /\ levels' = c.levels
  /\ media' = c.media
  /\ trackId' = c.trackId
  /\ fragCurrent' = c.fragCurrent
  /\ fragPrevious' = c.fragPrevious
  /\ fragLoadError' = c.fragLoadError
  /\ retryDate' = c.retryDate
  /\ audioSwitch' = c.audioSwitch
  /\ appended' = c.appended
  /\ pendingBuffering' = c.pendingBuffering
  /\ pendingData' = c.pendingData
  /\ videoTrackCC' = c.videoTrackCC
  /\ audioInitPTS' = c.initPTS
  /\ jobs' = c.jobs
  /\ maxMaxBufferLength' = c.maxMaxBufferLength
  /\ ascOut' = c.out
  /\ ascNextLoadPosition' = c.nextLoadPosition

\* hls.trigger(event, data)
trigger(c, name, level, id) == [c EXCEPT !.out = Append(@, Ev(name, level, id))]

\* levels[id].details: None, or the details of the track's playlist.
details(c, id) ==
  IF c.levels = None \/ id \notin Tracks THEN None ELSE Val(c.levels)[id + 1]

\* The audio tracks AUDIO_TRACKS_UPDATED brings, none with details yet.
NewTracks == [i \in 1..2 |-> None]

InitASC ==
  /\ state = "STOPPED"
  /\ levels = None
  /\ media = FALSE
  /\ trackId = -1
  /\ fragCurrent = None
  /\ fragPrevious = None
  /\ fragLoadError = 0
  /\ retryDate = None
  /\ audioSwitch = FALSE
  /\ appended = FALSE
  /\ pendingBuffering = FALSE
  /\ pendingData = <<>>
  /\ videoTrackCC = -1
  /\ audioInitPTS = {}
  /\ jobs = {}
  /\ ascResultOf = None
  /\ ascOut = <<>>
  /\ ascPos = 0
  /\ ascNextLoadPosition = None
  /\ ascSeeking = FALSE
  /\ ascStreak = None

\* frag.cc: the fragments of the playlists are of continuity counter 0.
frag_cc(frag) == 0

\* _fragLoadAborted (frag), frag being None or Some(fragment).
fragLoadAborted(c, frag) ==
  \/ frag = None
  \/ c.fragCurrent = None
  \/ Val(frag).level # Val(c.fragCurrent).level
  \/ Val(frag).sn # Val(c.fragCurrent).sn

\* LevelHelper.getFragmentWithSN (levels[level], sn)
getFragmentWithSN(c, level, sn) ==
  IF details(c, level) # None /\ sn \in 0..Val(details(c, level)).endSN
  THEN Some([level |-> level, sn |-> sn]) ELSE None

\* _loadFragForPlayback (frag): the load is dispatched.
loadFragForPlayback(c, frag) ==
  trigger([c EXCEPT !.state = "FRAG_LOADING",
                    !.jobs = @ \cup {[level |-> frag.level, sn |-> frag.sn,
                                      superseded |-> FALSE]}],
          "FRAG_LOADING", frag.level, frag.sn)

\* The jobs in flight once the audio track is switched.
Superseded(js) == {[j EXCEPT !.superseded = TRUE] : j \in js}

\* stopLoad ()
stopLoad(c) ==
  [c EXCEPT !.fragCurrent = None, !.fragPrevious = None,
            !.state = "STOPPED"]

\* _streamEnded (bufferInfo, trackDetails)
streamEnded(c, read) ==
  /\ c.fragCurrent # None
  /\ Val(c.fragCurrent).sn = Val(details(c, c.trackId)).endSN
  /\ read.ended

doTick_bufferEnd_OfBuffer(c, read) == read.bufferEnd

\* doTick, state IDLE: bufferEnd, the position the fragment is looked up at.
doTick_bufferEnd(c, read) ==
  LET trackDetails == Val(details(c, c.trackId))
  IN IF ~c.audioSwitch THEN read.bufferEnd
     ELSE IF trackDetails.live /\ ~trackDetails.PTSKnown THEN 0
     ELSE read.pos

\* doTick, state IDLE: the fragment to load next, None if there is none.
\* findFragmentByPTS gives the fragment bufferEnd lies in.
doTick_frag(c, read) ==
  LET endSN == Val(details(c, c.trackId)).endSN
      bufferEnd == doTick_bufferEnd(c, read)
      found == IF bufferEnd <= endSN THEN bufferEnd ELSE endSN
      again == /\ c.fragPrevious # None
               /\ Val(c.fragPrevious).level = c.trackId
               /\ Val(c.fragPrevious).sn = found
  IN IF ~again THEN Some([level |-> c.trackId, sn |-> found])
     ELSE IF found < endSN THEN Some([level |-> c.trackId, sn |-> found + 1])
     ELSE None

doTick_initPTSKnown_OfVideo(c, frag) == c.videoTrackCC \in c.initPTS

\* doTick, state IDLE: "Number.isFinite(this.initPTS[frag.cc])", the
\* playlist being one without an init segment.
doTick_initPTSKnown(c, frag) == frag_cc(frag) \in c.initPTS

\* doTick, state IDLE
doTick_IDLE(c, read) ==
  IF c.levels = None \/ ~c.media \/ c.trackId \notin Tracks THEN c
  ELSE IF ~(read.bufferLow \/ c.audioSwitch) THEN c
  ELSE IF details(c, c.trackId) = None
  THEN [c EXCEPT !.state = "WAITING_TRACK"]
  ELSE IF ~c.audioSwitch /\ streamEnded(c, read)
  THEN trigger([c EXCEPT !.state = "ENDED"], "BUFFER_EOS", -1, -1)
  ELSE IF c.audioSwitch /\ doTick_bufferEnd(c, read) < 0
  THEN c
  ELSE LET frag == doTick_frag(c, read)
       IN IF frag = None THEN c
          ELSE IF Val(details(c, c.trackId)).encrypted
          THEN trigger([c EXCEPT !.state = "KEY_LOADING"],
                       "KEY_LOADING", Val(frag).level, Val(frag).sn)
          ELSE LET prevPos == c.nextLoadPosition
                   c1 == [c EXCEPT !.fragCurrent = frag,
                                   !.nextLoadPosition = Some(Val(frag).sn + 1)]
               IN IF c.audioSwitch \/ ~read.tracked
                  THEN IF doTick_initPTSKnown(c, Val(frag))
                       THEN loadFragForPlayback(c1, Val(frag))
                       ELSE [c1 EXCEPT !.state = "WAITING_INIT_PTS",
                                       !.nextLoadPosition = prevPos]
                  ELSE c1

doTick_retry_Unseeking(c, read) ==
  c.retryDate = None \/ c.retryDate = Some(0)

\* doTick, state FRAG_LOADING_WAITING_RETRY:
\* !retryDate || (now >= retryDate) || isSeeking
doTick_retry(c, read) ==
  c.retryDate = None \/ c.retryDate = Some(0) \/ (c.media /\ read.seeking)

\* doTick ()
doTick(c, read) ==
  CASE c.state = "STARTING" -> [c EXCEPT !.state = "WAITING_TRACK"]
    [] c.state = "IDLE" -> doTick_IDLE(c, read)
    [] c.state = "WAITING_TRACK" ->
         IF details(c, c.trackId) # None
         THEN [c EXCEPT !.state = "WAITING_INIT_PTS"] ELSE c
    [] c.state = "FRAG_LOADING_WAITING_RETRY" ->
         IF doTick_retry(c, read) THEN [c EXCEPT !.state = "IDLE"] ELSE c
    [] c.state = "WAITING_INIT_PTS" ->
         IF c.videoTrackCC \in c.initPTS THEN [c EXCEPT !.state = "IDLE"]
         ELSE c
    [] OTHER -> c

\* What a tick may read when it starts with the fields as in c; what the
\* tick does not look at is left at its value in NoRead.
ReadsIn(c) ==
  IF c.state = "IDLE" /\ details(c, c.trackId) # None
  THEN LET trackDetails == Val(details(c, c.trackId))
           known == trackDetails.live /\ trackDetails.PTSKnown
       IN {r \in TickReads(trackDetails.endSN) :
             /\ ~r.seeking
             /\ ~r.bufferLow => r = NoRead
             /\ r.pos <= trackDetails.endSN
             /\ r.pos < 0 => known
             /\ IF c.audioSwitch THEN r.bufferEnd = 0 ELSE r.pos = 0
             /\ (c.audioSwitch /\ trackDetails.live /\ ~known) => r.pos = 0}
  ELSE IF c.state = "FRAG_LOADING_WAITING_RETRY"
  THEN {[NoRead EXCEPT !.seeking = s] : s \in BOOLEAN}
  ELSE {NoRead}

\* The handler returns: the fields are as in c, after the tick the handler
\* ends with if it ends with one.
Returns(c, tick, streak, resultOf) ==
  /\ \E read \in (IF tick THEN ReadsIn(c) ELSE {NoRead}) :
       /\ Commit(IF tick THEN doTick(c, read) ELSE c)
       /\ ascSeeking' = read.seeking
       /\ ascPos' = read.pos
  /\ ascStreak' = streak
  /\ ascResultOf' = resultOf
  /\ UNCHANGED <<ascPlaylists, ascVideoCCs, notASC>>

Return(c, tick, streak) == Returns(c, tick, streak, None)

\* The tick of the interval timer.
ASCTick == Return(Ctl, TRUE, ascStreak)

\* startLoad (startPosition), levels being set; resume: lastCurrentTime > 0
\* and startPosition is -1.
startLoad(c, resume) ==
  [stopLoad(c) EXCEPT !.fragLoadError = 0,
                      !.state = IF resume THEN "IDLE" ELSE "STARTING"]

ASCStartLoad ==
  \E resume \in BOOLEAN :
    IF levels = None
    THEN Return([Ctl EXCEPT !.state = "STOPPED"], FALSE, ascStreak)
    ELSE Return(startLoad(Ctl, resume), TRUE, Some(0))

ASCStopLoad == Return(stopLoad(Ctl), FALSE, ascStreak)

\* config.autoStartLoad is on.
OnMediaAttached ==
  /\ ~media
  /\ \E resume \in BOOLEAN :
       LET c == [Ctl EXCEPT !.media = TRUE]
       IN IF levels = None
          THEN Return(c, FALSE, ascStreak)
          ELSE Return(startLoad(c, resume), TRUE, Some(0))

OnMediaDetaching ==
  /\ media
  /\ Return(stopLoad([Ctl EXCEPT !.media = FALSE]), FALSE, ascStreak)

\* The audio tracks of the manifest.
OnAudioTracksUpdated ==
  /\ levels = None
  /\ Return([Ctl EXCEPT !.levels = Some(NewTracks)], FALSE, ascStreak)

\* The audio track is switched to another one.
OnAudioTrackSwitching ==
  \E id \in Tracks \ {trackId} :
    LET altAudio == id \in AltTracks
        c == [Ctl EXCEPT !.trackId = id,
                         !.fragCurrent = None,
                         !.state = IF altAudio THEN "IDLE" ELSE "PAUSED",
                         !.audioSwitch = IF altAudio THEN TRUE ELSE @,
                         !.jobs = Superseded(@)]
    IN Return(c, TRUE, ascStreak)

OnAudioTrackLoaded ==
  \E id \in AltTracks, d \in ascPlaylists :
    IF levels = None
    THEN Return(Ctl, FALSE, ascStreak)
    ELSE LET curDetails == details(Ctl, id)
             known == d.live /\ curDetails # None /\ Val(curDetails).PTSKnown
             c == [Ctl EXCEPT
                     !.levels = Some([Val(@) EXCEPT ![id + 1] =
                                        Some([d EXCEPT !.PTSKnown = known])]),
                     !.state = IF @ = "WAITING_TRACK" THEN "IDLE" ELSE @]
         IN Return(c, TRUE, ascStreak)

\* The key loader has set the key of the fragments (frag.encrypted is false
\* from then on) before it triggers KEY_LOADED.
keyLoader_keyed(ls) ==
  IF ls = None THEN None
  ELSE Some([i \in 1..2 |->
               IF Val(ls)[i] = None THEN None
               ELSE Some([Val(Val(ls)[i]) EXCEPT !.encrypted = FALSE])])

onKeyLoaded_due_Always(c) == TRUE

\* onKeyLoaded: this.state === State.KEY_LOADING
onKeyLoaded_due(c) == c.state = "KEY_LOADING"

\* KEY_LOADED, of the key of the audio fragments (own) or of another key.
OnKeyLoaded ==
  \E own \in BOOLEAN :
    LET c == IF own THEN [Ctl EXCEPT !.levels = keyLoader_keyed(@)] ELSE Ctl
    IN IF onKeyLoaded_due(c)
       THEN Return([c EXCEPT !.state = "IDLE"], TRUE, ascStreak)
       ELSE Return(c, FALSE, ascStreak)

\* INIT_PTS_FOUND of a video fragment of continuity counter cc, with a
\* finite initPTS.
OnInitPtsFound ==
  \E cc \in ascVideoCCs :
    Return([Ctl EXCEPT !.initPTS = @ \cup {cc}, !.videoTrackCC = cc],
           state = "WAITING_INIT_PTS", ascStreak)

checkAppendedParsed_due_Always(c) == c.state = "PARSED"

\* _checkAppendedParsed (), up to its tick.
checkAppendedParsed_due(c) ==
  c.state = "PARSED" /\ (~c.appended \/ ~c.pendingBuffering)

checkAppendedParsed(c) ==
  IF ~checkAppendedParsed_due(c) \/ c.fragCurrent = None THEN c
  ELSE LET f == Val(c.fragCurrent)
           c1 == trigger([c EXCEPT !.fragPrevious = c.fragCurrent],
                         "FRAG_BUFFERED", f.level, f.sn)
           c2 == IF c.audioSwitch /\ c.appended
                 THEN trigger([c1 EXCEPT !.audioSwitch = FALSE],
                              "AUDIO_TRACK_SWITCHED", c.trackId, -1)
                 ELSE c1
       IN [c2 EXCEPT !.state = "IDLE"]

OnBufferAppended ==
  \E parent \in {"audio", "main"}, pending \in BOOLEAN :
    IF parent = "audio" /\ state \in {"PARSING", "PARSED"}
    THEN LET c == [Ctl EXCEPT !.pendingBuffering = pending]
         IN Return(checkAppendedParsed(c), checkAppendedParsed_due(c),
                   ascStreak)
    ELSE Return(Ctl, FALSE, ascStreak)

OnBufferFlushed ==
  IF pendingData # <<>>
  THEN LET c == [Ctl EXCEPT !.appended = TRUE, !.pendingData = <<>>,
                            !.state = "PARSED",
                            !.out = [i \in 1..Len(pendingData) |->
                                       Ev("BUFFER_APPENDING", -1, -1)]]
       IN Return(c, FALSE, ascStreak)
  ELSE Return([Ctl EXCEPT !.state = "IDLE", !.fragPrevious = None], TRUE,
              ascStreak)

onError_retries_Below(loadError) == loadError < fragLoadingMaxRetry

\* onError: the loadError-th failure is retried.
onError_retries(loadError) == loadError <= fragLoadingMaxRetry

onError_delay_Uncapped(loadError) ==
  Pow2(loadError - 1) * fragLoadingRetryDelay

\* onError: the delay before the retry of the loadError-th failure.
onError_delay(loadError) ==
  Min(Pow2(loadError - 1) * fragLoadingRetryDelay, fragLoadingMaxRetryTimeout)

\* onError, FRAG_LOAD_ERROR or FRAG_LOAD_TIMEOUT of an audio fragment that
\* comes in as not fatal.  retryDate is kept as the time left until the
\* retry is due; the event "data.fatal" stands for the error going on to the
\* handlers after this one as a fatal one.
onError_fragLoad(c) ==
  LET loadError == c.fragLoadError + 1
  IN IF onError_retries(loadError)
     THEN [c EXCEPT !.fragLoadError = loadError,
                    !.retryDate = Some(onError_delay(loadError)),
                    !.state = "FRAG_LOADING_WAITING_RETRY"]
     ELSE trigger([c EXCEPT !.state = "ERROR"], "data.fatal", -1, -1)

\* The failures in a row since startLoad, one more.
NextStreak(s) ==
  IF s # None /\ Val(s) <= fragLoadingMaxRetry THEN Some(Val(s) + 1) ELSE None

onError_reduces_Always(maxMax) == TRUE

\* onError: config.maxMaxBufferLength >= config.maxBufferLength
onError_reduces(maxMax) == maxMax.num >= maxBufferLength * maxMax.den

\* onError, BUFFER_FULL_ERROR of the audio buffer in state PARSING or PARSED.
onError_bufferFull(c, mediaBuffered) ==
  IF mediaBuffered
  THEN [c EXCEPT !.state = "IDLE",
                 !.maxMaxBufferLength =
                    IF onError_reduces(@) THEN [@ EXCEPT !.den = 2 * @]
                    ELSE @]
  ELSE trigger([c EXCEPT !.fragCurrent = None, !.state = "BUFFER_FLUSHING"],
               "BUFFER_FLUSHING", -1, -1)

\* The load of job j fails: FRAG_LOAD_ERROR or FRAG_LOAD_TIMEOUT.
OnFragLoadError(j, fatal) ==
  LET c == [Ctl EXCEPT !.jobs = @ \ {j}]
  IN IF fatal THEN Return(c, FALSE, ascStreak)
     ELSE Return(onError_fragLoad(c), FALSE, NextStreak(ascStreak))

\* AUDIO_TRACK_LOAD_ERROR, AUDIO_TRACK_LOAD_TIMEOUT, KEY_LOAD_ERROR or
\* KEY_LOAD_TIMEOUT
OnTrackOrKeyLoadError(fatal) ==
  IF state # "ERROR"
  THEN Return([Ctl EXCEPT !.state = IF fatal THEN "ERROR" ELSE "IDLE"],
              FALSE, ascStreak)
  ELSE Return(Ctl, FALSE, ascStreak)

\* BUFFER_FULL_ERROR of the buffer of parent; mediaBuffered is read only
\* where the handler reads it.
OnBufferFullError(parent, mediaBuffered) ==
  IF parent = "audio" /\ state \in {"PARSING", "PARSED"}
  THEN /\ media
       /\ Return(onError_bufferFull(Ctl, mediaBuffered), FALSE, ascStreak)
  ELSE /\ ~mediaBuffered
       /\ Return(Ctl, FALSE, ascStreak)

\* An error of other details, or of a fragment that is not an audio fragment.
OnUnrelatedError == Return(Ctl, FALSE, ascStreak)

ASCOnError ==
  \/ \E j \in jobs, fatal \in BOOLEAN : OnFragLoadError(j, fatal)
  \/ \E fatal \in BOOLEAN : OnTrackOrKeyLoadError(fatal)
  \/ \E parent \in {"audio", "main"}, mediaBuffered \in BOOLEAN :
       OnBufferFullError(parent, mediaBuffered)
  \/ OnUnrelatedError

\* _bufferInitSegment (frag, tracks), the tracks having an audio track with
\* an init segment; called in state PARSING.
bufferInitSegment(c) ==
  LET c1 == trigger(c, "BUFFER_CODECS", -1, -1)
  IN IF c.audioSwitch
     THEN [c1 EXCEPT !.pendingData = <<"initSegment">>]
     ELSE trigger([c1 EXCEPT !.appended = TRUE, !.pendingBuffering = TRUE],
                  "BUFFER_APPENDING", -1, -1)

\* LevelHelper.updateFragPTSDTS (levels[trackId].details, frag, ...), as far
\* as PTSKnown goes.
updateFragPTSDTS(ls, id) ==
  IF id \notin Tracks \/ Val(ls)[id + 1] = None THEN ls
  ELSE Some([Val(ls) EXCEPT ![id + 1] =
               Some([Val(@) EXCEPT !.PTSKnown = Val(Val(ls)[id + 1]).live])])

\* _bufferFragmentData (frag, data), data.data1 not empty; called in state
\* PARSING.  canFlush: media.readyState is not 0 and media.currentTime has
\* reached data.startPTS.
bufferFragmentData(c, canFlush) ==
  LET appendOnBufferFlush == c.audioSwitch /\ c.media /\ canFlush
      c0 == [c EXCEPT !.levels = updateFragPTSDTS(@, c.trackId)]
      c1 == IF appendOnBufferFlush
            THEN trigger([c0 EXCEPT !.state = "BUFFER_FLUSHING"],
                         "BUFFER_FLUSHING", -1, -1)
            ELSE c0
      c2 == IF c.audioSwitch
            THEN trigger([c1 EXCEPT !.audioSwitch = FALSE],
                         "AUDIO_TRACK_SWITCHED", c.trackId, -1)
            ELSE c1
      pending == Append(c.pendingData, "data")
  IN IF appendOnBufferFlush THEN [c2 EXCEPT !.pendingData = pending]
     ELSE [c2 EXCEPT !.pendingBuffering = TRUE, !.pendingData = <<>>,
                     !.appended = TRUE,
                     !.out = @ \o [i \in 1..Len(pending) |->
                                     Ev("BUFFER_APPENDING", -1, -1)]]

\* _handleTransmuxComplete (transmuxResult), up to its ticks: the result has
\* an init segment with an audio track (hasInit), audio data (hasAudio).
handleTransmuxComplete(c, level, sn, hasInit, hasAudio, canFlush) ==
  IF c.levels = None \/ fragLoadAborted(c, getFragmentWithSN(c, level, sn))
  THEN c
  ELSE LET c1 == [c EXCEPT !.state = "PARSING", !.pendingBuffering = TRUE,
                           !.appended = FALSE]
           c2 == IF hasInit THEN bufferInitSegment(c1) ELSE c1
       IN IF hasAudio THEN bufferFragmentData(c2, canFlush) ELSE c2

\* The transmuxer delivers a result for job j.
HandleTransmuxComplete ==
  \E j \in jobs, hasInit \in BOOLEAN, hasAudio \in BOOLEAN,
     canFlush \in BOOLEAN :
    LET c == handleTransmuxComplete(Ctl, j.level, j.sn, hasInit, hasAudio,
                                    canFlush)
    IN /\ canFlush => hasAudio /\ audioSwitch /\ media
       /\ Len(c.pendingData) \in PendingLengths
       /\ Returns(c, TRUE, ascStreak, Some(j))

\* _endParsing (), up to its tick.
endParsing(c) ==
  IF c.state # "PARSING" THEN c
  ELSE checkAppendedParsed([c EXCEPT !.state = "PARSED"])

\* _handleTransmuxerFlush: the transmuxer has delivered the last result of
\* job j.
HandleTransmuxerFlush ==
  \E j \in jobs :
    LET c == [Ctl EXCEPT !.jobs = @ \ {j}]
    IN Return(endParsing(c),
              c.state = "PARSING"
                /\ checkAppendedParsed_due([c EXCEPT !.state = "PARSED"]),
              ascStreak)

\* The load of job j has succeeded.
FragLoadComplete ==
  \E j \in jobs :
    Return([Ctl EXCEPT !.fragLoadError = 0], FALSE, None)

\* performance.now() reaches retryDate.
RetryDateReached ==
  /\ retryDate # None
  /\ retryDate # Some(0)
  /\ Return([Ctl EXCEPT !.retryDate = Some(0)], FALSE, ascStreak)

NextASC ==
  \/ ASCTick
  \/ ASCStartLoad
  \/ ASCStopLoad
  \/ OnMediaAttached
  \/ OnMediaDetaching
  \/ OnAudioTracksUpdated
  \/ OnAudioTrackSwitching
  \/ OnAudioTrackLoaded
  \/ OnKeyLoaded
  \/ OnInitPtsFound
  \/ OnBufferAppended
  \/ OnBufferFlushed
  \/ ASCOnError
  \/ HandleTransmuxComplete
  \/ HandleTransmuxerFlush
  \/ FragLoadComplete
  \/ RetryDateReached

(***************************************************************************)
(*                              AACDemuxer                                 *)
(*                                                                         *)
(* A session is fed the bytes of one stream, chunk after chunk.  A byte is *)
(* a number in 0..255; the header tests and the length fields of ADTS and  *)
(* ID3 are computed from the bytes.  A sample keeps its unit (the frame    *)
(* without its header) and the frame index its timestamp is computed       *)
(* from.                                                                   *)
(***************************************************************************)
\* data.subarray(from), from counted from 0
SliceFrom(data, from) == SubSeq(data, from + 1, Len(data))

\* data.subarray(from, to), from and to counted from 0, to clamped
Slice(data, from, to) == SubSeq(data, from + 1, Min(to, Len(data)))

\* data[i], i counted from 0
ByteAt(data, i) == data[i + 1]

\* ADTS.isHeader (data, offset): 1111 1111 | 1111 X00X
ADTS_isHeader(data, offset) ==
  /\ offset + 1 < Len(data)
  /\ ByteAt(data, offset) = 255
  /\ ByteAt(data, offset + 1) \in {240, 241, 248, 249}

\* ADTS.getHeaderLength (data, offset)
ADTS_getHeaderLength(data, offset) ==
  IF ByteAt(data, offset + 1) % 2 = 1 THEN 7 ELSE 9

\* ADTS.getFullFrameLength (data, offset)
ADTS_getFullFrameLength(data, offset) ==
  (ByteAt(data, offset + 3) % 4) * 2048 + ByteAt(data, offset + 4) * 8
    + (ByteAt(data, offset + 5) \div 32)

\* ADTS.appendFrame (track, data, offset, pts, frameIndex): None, or the
\* sample and the length of the frame.
ADTS_appendFrame(data, offset, index) ==
  LET headerLength == ADTS_getHeaderLength(data, offset)
      frameLength == ADTS_getFullFrameLength(data, offset) - headerLength
  IN IF frameLength > 0 /\ offset + headerLength + frameLength <= Len(data)
     THEN Some([sample |-> [unit |-> Slice(data, offset + headerLength,
                                           offset + headerLength + frameLength),
                            frameIndex |-> index],
                length |-> frameLength + headerLength])
     ELSE None

\* ID3.isHeader (data, offset)
ID3_isHeader(data, offset) ==
  /\ offset + 10 <= Len(data)
  /\ ByteAt(data, offset) = 73
  /\ ByteAt(data, offset + 1) = 68
  /\ ByteAt(data, offset + 2) = 51
  /\ ByteAt(data, offset + 3) < 255
  /\ ByteAt(data, offset + 4) < 255
  /\ \A i \in 6..9 : ByteAt(data, offset + i) < 128

\* ID3.isFooter (data, offset)
ID3_isFooter(data, offset) ==
  /\ offset + 10 <= Len(data)
  /\ ByteAt(data, offset) = 51
  /\ ByteAt(data, offset + 1) = 68
  /\ ByteAt(data, offset + 2) = 73
  /\ ByteAt(data, offset + 3) < 255
  /\ ByteAt(data, offset + 4) < 255
  /\ \A i \in 6..9 : ByteAt(data, offset + i) < 128

\* The size of the ID3 tag at offset, a sync-safe integer.
ID3_readSize(data, offset) ==
  ByteAt(data, offset) * 2097152 + ByteAt(data, offset + 1) * 16384
    + ByteAt(data, offset + 2) * 128 + ByteAt(data, offset + 3)

\* ID3.getID3Data (data, offset): the offset behind the ID3 tags at offset.
RECURSIVE ID3_end(_, _)
ID3_end(data, offset) ==
  IF ~ID3_isHeader(data, offset) THEN offset
  ELSE LET behind == offset + 10 + ID3_readSize(data, offset + 6)
           next == IF behind <= Len(data) /\ ID3_isFooter(data, behind)
                   THEN behind + 10 ELSE behind
       IN IF next >= Len(data) THEN next ELSE ID3_end(data, next)

\* ID3.getID3Data (data, offset) || []
ID3_getID3Data(data, offset) == Slice(data, offset, ID3_end(data, offset))

demux_cachedData_Behind(data, offset) == SliceFrom(data, offset + 1)

\* demux: this.cachedData = data.slice(offset)
demux_cachedData(data, offset) == SliceFrom(data, offset)

\* demux, the loop from offset on: d.samples are the samples of the track,
\* d.parsed the frames and ID3 tags passed over so far.
RECURSIVE demux_loop(_, _, _)
demux_loop(data, offset, d) ==
  IF offset > Len(data) THEN d
  ELSE IF /\ ADTS_isHeader(data, offset)
          /\ offset + 5 < Len(data)
          /\ ADTS_getFullFrameLength(data, offset) < Len(data) - offset
  THEN LET frame == ADTS_appendFrame(data, offset, d.frameIndex)
       IN IF frame # None
          THEN demux_loop(data, offset + Val(frame).length,
                 [d EXCEPT !.samples = Append(@, Val(frame).sample),
                           !.frameIndex = @ + 1,
                           !.parsed = Append(@,
                              [kind |-> "frame",
                               bytes |-> Slice(data, offset,
                                               offset + Val(frame).length)])])
          ELSE [d EXCEPT !.cachedData = demux_cachedData(data, offset)]
  ELSE IF ID3_isHeader(data, offset)
  THEN LET id3Data == ID3_getID3Data(data, offset)
       IN demux_loop(data, offset + Len(id3Data),
            [d EXCEPT !.parsed = Append(@, [kind |-> "id3", bytes |-> id3Data])])
  ELSE [d EXCEPT !.cachedData = demux_cachedData(data, offset)]

\* demux (data, timeOffset)
demux(data, d) ==
  LET all == d.cachedData \o data
      id3Data == ID3_getID3Data(all, 0)
      d1 == [d EXCEPT !.cachedData = <<>>,
                      !.parsed = IF id3Data = <<>> THEN @
                                 ELSE Append(@, [kind |-> "id3",
                                                 bytes |-> id3Data])]
  IN demux_loop(all, Len(id3Data), d1)

\* An ADTS frame with a header of 7 bytes and the given payload.
AdtsFrame(payload) ==
  LET full == 7 + Len(payload)
  IN <<255, 241, 80, 128, full \div 8, (full % 8) * 32 + 31, 252>> \o payload

\* An ID3 tag with the given body.
Id3Tag(body) == <<73, 68, 51, 4, 0, 0, 0, 0, 0, Len(body)>> \o body

\* The streams a session may be fed: three frames; a byte that starts no
\* header, then two frames; a frame, an ID3 tag, two frames; an ID3 tag, a
\* header whose frame has no payload, a frame.
AACStreams ==
  { AdtsFrame(<<1>>) \o AdtsFrame(<<2, 3>>) \o AdtsFrame(<<4>>),
    <<0>> \o AdtsFrame(<<1>>) \o AdtsFrame(<<2>>),
    AdtsFrame(<<1>>) \o Id3Tag(<<5, 6>>) \o AdtsFrame(<<2>>),
    Id3Tag(<<>>) \o AdtsFrame(<<>>) \o AdtsFrame(<<1>>) }

NoDemux == [cached |-> 0, fed |-> 0, emitted |-> 0]

InitAAC ==
  /\ aacFed = 0
  /\ cachedData = <<>>
  /\ frameIndex = 0
  /\ audioTrack = None
  /\ aacParsed = <<>>
  /\ aacTaken = 0
  /\ aacLast = NoDemux

\* resetInitSegment (audioCodec, videoCodec, duration): a new track, without
\* samples.
AACResetInitSegment ==
  /\ audioTrack' = Some(<<>>)
  /\ aacTaken' = aacTaken + (IF audioTrack = None THEN 0
                             ELSE Len(Val(audioTrack)))
  /\ aacLast' = NoDemux
  /\ UNCHANGED <<aacStream, aacFed, cachedData, frameIndex, aacParsed, notAAC>>

\* demux (data, timeOffset), data being the next bytes of the stream.
AACDemux ==
  \E n \in 1..(Len(aacStream) - aacFed) :
    LET data == SubSeq(aacStream, aacFed + 1, aacFed + n)
        d == demux(data, [cachedData |-> cachedData,
                          samples |-> Val(audioTrack),
                          frameIndex |-> frameIndex,
                          parsed |-> aacParsed])
    IN /\ audioTrack # None
       /\ aacFed' = aacFed + n
       /\ cachedData' = d.cachedData
       /\ frameIndex' = d.frameIndex
       /\ audioTrack' = Some(d.samples)
       /\ aacParsed' = d.parsed
       /\ aacLast' = [cached |-> Len(cachedData), fed |-> n,
                      emitted |-> Len(d.samples) - Len(Val(audioTrack))]
       /\ UNCHANGED <<aacStream, aacTaken, notAAC>>

\* flush (timeOffset)
AACFlush ==
  /\ frameIndex' = 0
  /\ aacLast' = NoDemux
  /\ UNCHANGED <<aacStream, aacFed, cachedData, audioTrack, aacParsed,
                 aacTaken, notAAC>>

NextAAC ==
  \/ AACResetInitSegment
  \/ AACDemux
  \/ AACFlush

(***************************************************************************)
(*                           TimelineController                            *)
(***************************************************************************)
\* Bounds of the timeline controller's surroundings.
MaxTextTracks == 3   \* media.textTracks holds at most this many tracks
MaxSubtitles == 2    \* data.subtitles holds at most this many tracks

Labels == {"en", "ru"}
\* config.captionsTextTrack1Label
captionsTextTrack1Label == "en"

\* One entry of data.subtitles.
Subtitles == [name : Labels, default : BOOLEAN]

\* data.subtitles of a manifest (empty: the manifest has none).
SubtitleLists ==
  UNION {[1..n -> Subtitles] : n \in 0..MaxSubtitles}

\* A text track of the media element; captions: the track carries the
\* property textTrack1 or textTrack2.
TextTrack(label, captions) ==
  [label |-> label, captions |-> captions, mode |-> "hidden"]

\* The text tracks a media element may have when it is attached.
MediaElements ==
  {<<>>, <<TextTrack("en", FALSE)>>, <<TextTrack("ru", FALSE)>>,
   <<TextTrack("en", TRUE)>>}

TimelineConfigs == [enableWebVTT : BOOLEAN, renderNatively : BOOLEAN]

NoTimelineCall ==
  [op |-> "new", subtitles |-> <<>>, subtitleDisplay |-> FALSE,
   threw |-> FALSE]

InitTimeline ==
  /\ tcMedia = FALSE
  /\ mediaTextTracks = <<>>
  /\ textTracks = <<>>
  /\ tcTracks = <<>>
  /\ captionsTracks = None
  /\ tcCall = NoTimelineCall
  /\ tcOut = <<>>

\* The specifications of the other components: the timeline controller gets
\* no manifest.
NoTimeline ==
  /\ tcSubtitles = {}
  /\ tcConfig = [enableWebVTT |-> TRUE, renderNatively |-> TRUE]

\* onMediaAttaching (data): data.media is the element attached before, or an
\* element with text tracks of its own.
TCOnMediaAttaching ==
  \E element \in MediaElements :
    /\ tcMedia' = TRUE
    /\ mediaTextTracks' = IF tcMedia THEN mediaTextTracks ELSE element
    /\ tcMedia => element = <<>>
    /\ tcCall' = [NoTimelineCall EXCEPT !.op = "mediaAttaching"]
    /\ tcOut' = <<>>
    /\ UNCHANGED <<textTracks, tcTracks, captionsTracks, tcSubtitles,
                   tcConfig>>
    /\ UNCHANGED notTimeline

\* onMediaDetaching ()
TCOnMediaDetaching ==
  /\ captionsTracks' = None
  /\ tcCall' = [NoTimelineCall EXCEPT !.op = "mediaDetaching"]
  /\ tcOut' = <<>>
  /\ UNCHANGED <<tcMedia, mediaTextTracks, textTracks, tcTracks, tcSubtitles,
                 tcConfig>>
  /\ UNCHANGED notTimeline

\* getExistingTrack ('textTrack1'): None, or Some(index of the track).
getExistingTrack(tts) ==
  LET found == {i \in DOMAIN tts : tts[i].captions}
  IN IF ~tcMedia \/ found = {} THEN None
     ELSE Some(CHOOSE i \in found : \A j \in found : i <= j)

\* createCaptionsTrack ('textTrack1')
TCCreateCaptionsTrack ==
  LET existingTrack == getExistingTrack(mediaTextTracks)
      native == tcConfig.renderNatively
      create == native /\ captionsTracks = None /\ existingTrack = None
                  /\ tcMedia
  IN /\ create => Len(mediaTextTracks) < MaxTextTracks
     /\ mediaTextTracks' =
          IF create
          THEN Append(mediaTextTracks, TextTrack(captionsTextTrack1Label, TRUE))
          ELSE mediaTextTracks
     /\ captionsTracks' =
          IF captionsTracks # None THEN captionsTracks
          ELSE IF ~native THEN Some(0)
          ELSE IF existingTrack # None THEN existingTrack
          ELSE IF tcMedia THEN Some(Len(mediaTextTracks) + 1)
          ELSE None
     /\ tcOut' = IF captionsTracks = None /\ ~native
                 THEN <<Ev("NON_NATIVE_TEXT_TRACKS_FOUND", -1, -1)>>
                 ELSE <<>>
     /\ tcCall' = [NoTimelineCall EXCEPT !.op = "createCaptionsTrack"]
     /\ UNCHANGED <<tcMedia, textTracks, tcTracks, tcSubtitles, tcConfig>>
     /\ UNCHANGED notTimeline

\* canReuseVttTextTrack (inUseTrack, manifestTrack)
canReuseVttTextTrack(inUseTrack, manifestTrack) ==
  inUseTrack.label = manifestTrack.name /\ ~inUseTrack.captions

\* onManifestLoaded: the mode a subtitle track's text track is given.
onManifestLoaded_mode(track, subtitleDisplay) ==
  IF track.default
  THEN (IF subtitleDisplay THEN "showing" ELSE "hidden")
  ELSE "disabled"

\* onManifestLoaded: the track of inUseTracks to reuse for the manifest track
\* at index (from 0), None if there is none: its index in inUseTracks.
onManifestLoaded_inUseTrack(inUseTracks, track, index) ==
  LET found == {i \in DOMAIN inUseTracks :
                  canReuseVttTextTrack(inUseTracks[i], track)}
  IN IF index < Len(inUseTracks) /\ found # {}
     THEN Some(CHOOSE i \in found : \A j \in found : i <= j)
     ELSE None

\* onManifestLoaded, renderNatively, the media being attached: the forEach
\* over this.tracks from index on; inUseTracks is media.textTracks, which
\* grows with each track created.
RECURSIVE onManifestLoaded_forEach(_, _, _, _, _)
onManifestLoaded_forEach(ts, index, inUseTracks, tts, subtitleDisplay) ==
  IF index >= Len(ts) THEN [media |-> inUseTracks, textTracks |-> tts]
  ELSE LET track == ts[index + 1]
           inUseTrack == onManifestLoaded_inUseTrack(inUseTracks, track, index)
           added == IF inUseTrack = None
                    THEN Append(inUseTracks, TextTrack(track.name, FALSE))
                    ELSE inUseTracks
           textTrack == IF inUseTrack = None THEN Len(added)
                        ELSE Val(inUseTrack)
           moded == [added EXCEPT ![textTrack].mode =
                       onManifestLoaded_mode(track, subtitleDisplay)]
       IN onManifestLoaded_forEach(ts, index + 1, moded,
                                   Append(tts, textTrack), subtitleDisplay)

\* onManifestLoaded (data), as far as the subtitle tracks go.  Without a
\* media element createTextTrack returns undefined and the assignment of
\* textTrack.mode throws.
TCOnManifestLoaded ==
  \E subtitles \in tcSubtitles, subtitleDisplay \in BOOLEAN :
    LET native == tcConfig.enableWebVTT /\ tcConfig.renderNatively
        sameTracks == Len(tcTracks) = Len(subtitles)
        threw == native /\ ~tcMedia /\ subtitles # <<>>
        r == onManifestLoaded_forEach(subtitles, 0, mediaTextTracks, <<>>,
                                      subtitleDisplay)
    IN /\ (native /\ tcMedia) => Len(r.media) <= MaxTextTracks
       /\ tcTracks' = IF tcConfig.enableWebVTT THEN subtitles ELSE tcTracks
       /\ mediaTextTracks' = IF native /\ tcMedia THEN r.media
                             ELSE mediaTextTracks
       /\ textTracks' = IF native /\ tcMedia THEN r.textTracks ELSE <<>>
       /\ tcOut' = IF /\ tcConfig.enableWebVTT /\ ~tcConfig.renderNatively
                      /\ ~sameTracks /\ subtitles # <<>>
                   THEN <<Ev("NON_NATIVE_TEXT_TRACKS_FOUND", -1, -1)>>
                   ELSE <<>>
       /\ tcCall' = [op |-> "manifestLoaded", subtitles |-> subtitles,
                     subtitleDisplay |-> subtitleDisplay, threw |-> threw]
       /\ UNCHANGED <<tcMedia, captionsTracks, tcSubtitles, tcConfig>>
       /\ UNCHANGED notTimeline

NextTimeline ==
  \/ TCOnMediaAttaching
  \/ TCOnMediaDetaching
  \/ TCCreateCaptionsTrack
  \/ TCOnManifestLoaded

(***************************************************************************)
(*                            Specifications                               *)
(***************************************************************************)
vars == <<ptrVars, lcVars, ascVars, aacVars, timelineVars>>

InitSpecPTR ==
  InitPTR /\ InitLC /\ InitASC /\ InitAAC /\ InitTimeline /\ NoTimeline
  /\ lcManifests = {} /\ ascPlaylists = {} /\ ascVideoCCs = {}
  /\ aacStream = <<>>
  /\ maxMaxBufferLength = MaxMaxBelow

SpecPTR == InitSpecPTR /\ [][NextPTR]_vars

\* The level controller on a stream with one bitrate.
InitSpecLC ==
  InitPTR /\ InitLC /\ InitASC /\ InitAAC /\ InitTimeline /\ NoTimeline
  /\ lcManifests = OneBitrateManifests
  /\ ascPlaylists = {} /\ ascVideoCCs = {} /\ aacStream = <<>>
  /\ maxMaxBufferLength = MaxMaxBelow

SpecLC == InitSpecLC /\ [][NextLC]_vars

\* The level controller on a stream with two bitrates.
InitSpecLCLevels ==
  InitPTR /\ InitLC /\ InitASC /\ InitAAC /\ InitTimeline /\ NoTimeline
  /\ lcManifests = TwoBitrateManifests
  /\ ascPlaylists = {} /\ ascVideoCCs = {} /\ aacStream = <<>>
  /\ maxMaxBufferLength = MaxMaxBelow

\* On that stream no playlist gets loaded and no level is removed, and
\* loading is neither started nor stopped.
NextLCLevels ==
  \/ OnManifestLoaded
  \/ SetManualLevel
  \/ LCOnError
  \/ LCOnFragLoaded
  \/ TimerFires

SpecLCLevels == InitSpecLCLevels /\ [][NextLCLevels]_vars

\* The level controller given manifests of up to three entries, of one or two
\* bitrates, a codec of an entry being supported, absent or not supported.
InitSpecLCManifest ==
  InitPTR /\ InitLC /\ InitASC /\ InitAAC /\ InitTimeline /\ NoTimeline
  /\ lcManifests = CodecManifests
  /\ ascPlaylists = {} /\ ascVideoCCs = {} /\ aacStream = <<>>
  /\ maxMaxBufferLength = MaxMaxBelow

\* Between the manifests, levels are assigned and removed.
NextLCManifest ==
  \/ OnManifestLoaded
  \/ SetLevel
  \/ OnLevelRemoved

SpecLCManifest == InitSpecLCManifest /\ [][NextLCManifest]_vars

\* The audio stream controller on alternate audio of one plain fragment.
InitSpecASC ==
  InitPTR /\ InitLC /\ InitASC /\ InitAAC /\ InitTimeline /\ NoTimeline /\ lcManifests = {}
  /\ ascPlaylists = PlainPlaylists /\ ascVideoCCs = {0}
  /\ aacStream = <<>>
  /\ maxMaxBufferLength = MaxMaxBelow

SpecASC == InitSpecASC /\ [][NextASC]_vars

\* A session of the audio stream controller with config.maxMaxBufferLength
\* above config.maxBufferLength.
InitSpecASCFull ==
  InitPTR /\ InitLC /\ InitASC /\ InitAAC /\ InitTimeline /\ NoTimeline /\ lcManifests = {}
  /\ ascPlaylists = PlainPlaylists /\ ascVideoCCs = {0}
  /\ aacStream = <<>>
  /\ maxMaxBufferLength = MaxMaxAbove

\* In that session no load fails, no key is loaded, and loading is not
\* stopped nor the media detached.
NextASCFull ==
  \/ ASCTick
  \/ ASCStartLoad
  \/ OnMediaAttached
  \/ OnAudioTracksUpdated
  \/ OnAudioTrackSwitching
  \/ OnAudioTrackLoaded
  \/ OnInitPtsFound
  \/ OnBufferAppended
  \/ OnBufferFlushed
  \/ \E parent \in {"audio", "main"}, mediaBuffered \in BOOLEAN :
       OnBufferFullError(parent, mediaBuffered)
  \/ HandleTransmuxComplete
  \/ HandleTransmuxerFlush
  \/ FragLoadComplete

SpecASCFull == InitSpecASCFull /\ [][NextASCFull]_vars

\* A session of the audio stream controller in which the video fragments
\* are of continuity counter 0 or 1.
InitSpecASCCC ==
  InitPTR /\ InitLC /\ InitASC /\ InitAAC /\ InitTimeline /\ NoTimeline /\ lcManifests = {}
  /\ ascPlaylists = PlainPlaylists /\ ascVideoCCs = {0, 1}
  /\ aacStream = <<>>
  /\ maxMaxBufferLength = MaxMaxBelow

SpecASCCC == InitSpecASCCC /\ [][NextASCFull]_vars

\* A session of the audio stream controller in which the fragments of a
\* playlist may be encrypted.
InitSpecASCKey ==
  InitPTR /\ InitLC /\ InitASC /\ InitAAC /\ InitTimeline /\ NoTimeline /\ lcManifests = {}
  /\ ascPlaylists = KeyPlaylists /\ ascVideoCCs = {0}
  /\ aacStream = <<>>
  /\ maxMaxBufferLength = MaxMaxBelow

NextASCKey ==
  \/ NextASCFull
  \/ OnKeyLoaded

SpecASCKey == InitSpecASCKey /\ [][NextASCKey]_vars

\* A session of the audio stream controller on a live playlist of two
\* fragments.
InitSpecASCLive ==
  InitPTR /\ InitLC /\ InitASC /\ InitAAC /\ InitTimeline /\ NoTimeline /\ lcManifests = {}
  /\ ascPlaylists = LivePlaylists /\ ascVideoCCs = {0}
  /\ aacStream = <<>>
  /\ maxMaxBufferLength = MaxMaxBelow

\* In that session no load fails, the buffer does not get full, and loading
\* is started once, when the media is attached.
NextASCLive ==
  \/ ASCTick
  \/ OnMediaAttached
  \/ OnAudioTracksUpdated
  \/ OnAudioTrackSwitching
  \/ OnAudioTrackLoaded
  \/ OnInitPtsFound
  \/ OnBufferAppended
  \/ OnBufferFlushed
  \/ HandleTransmuxComplete
  \/ HandleTransmuxerFlush
  \/ FragLoadComplete

SpecASCLive == InitSpecASCLive /\ [][NextASCLive]_vars

\* A session of the AAC demuxer on one of the streams.
InitSpecAAC ==
  InitPTR /\ InitLC /\ InitASC /\ InitAAC /\ InitTimeline /\ NoTimeline /\ lcManifests = {}
  /\ ascPlaylists = {} /\ ascVideoCCs = {} /\ aacStream \in AACStreams
  /\ maxMaxBufferLength = MaxMaxBelow

SpecAAC == InitSpecAAC /\ [][NextAAC]_vars

\* The track a non-empty RemuxerResult carries (as audio or as video).
OutTrack(o) == IF o.audio # None THEN Val(o.audio) ELSE Val(o.video)

\* The last call was a remux call with samples.
RemuxedSamples == ptrCall.op = "remux" /\ ~ptrCall.empty

\* The result of the last remux call carries initSegment.tracks.
CarriesTracks(o) ==
  /\ o # None
  /\ Val(o).initSegment # None
  /\ Val(Val(o).initSegment).tracks # None

\* C8: between two resetTimeStamp calls, every emitted track starts at the
\* endDTS of the track emitted before it and ends duration later, so the
\* segments neither overlap nor leave a gap and start DTS never decreases.
C8_TimestampContinuity ==
  ptrLast # None =>
    /\ Val(ptrLast).endDTS = Val(ptrLast).startDTS + Val(ptrLast).duration
    /\ Val(lastEndDTS) = Val(ptrLast).endDTS
    /\ Val(ptrLast).endDTS >= Val(ptrLast).startDTS
    /\ ptrPrev # None => Val(ptrLast).startDTS = Val(ptrPrev)

\* C8 witness: a second track has been emitted, after a first one that ended
\* away from the timeOffset of the second call.
C8_Witness ==
  /\ RemuxedSamples
  /\ ptrLast # None /\ ptrPrev # None
  /\ Val(ptrLast).duration > 0
  /\ Val(ptrPrev) # ptrCall.timeOffset
  /\ OutTrack(Val(ptrOut)).startDTS = Val(ptrPrev)

\* C9 (the claim as stated): a remux call with samples marked non-contiguous
\* emits a track whose start timestamp is the supplied timeOffset.
C9_NonContiguousAnchorsToTimeOffset ==
  (RemuxedSamples /\ ~ptrCall.contiguous) =>
    OutTrack(Val(ptrOut)).startDTS = ptrCall.timeOffset

\* C10 (amended): a remux call with samples carries initSegment.tracks
\* exactly when resetInitSegment has been called since the previous remux
\* call with samples; a call without samples carries none and leaves a
\* pending emission pending.
C10_InitSegmentOncePerReset ==
  [][(ptrCall'.op = "remux") =>
       /\ ~ptrCall'.empty => (CarriesTracks(ptrOut') <=> ptrResetPending)
       /\ ptrCall'.empty => (~CarriesTracks(ptrOut')
                              /\ ptrResetPending' = ptrResetPending)
       /\ emitInitSegment' = ptrResetPending']_vars

\* C10 witness: resetInitSegment was called, a remux call carried the tracks
\* and the emission is no longer pending.
C10_Witness ==
  /\ RemuxedSamples
  /\ CarriesTracks(ptrOut)
  /\ ~emitInitSegment

\* C10 (the claim as stated): as above, and the first remux call ever made
\* carries the tracks too.
C10_FirstUseAlsoCarries ==
  [][(ptrCall'.op = "remux" /\ ~ptrCall'.empty) =>
       (CarriesTracks(ptrOut') <=> (ptrResetPending \/ ~ptrRemuxed))]_vars

(***************************************************************************)
(*                     LevelController: properties                         *)
(***************************************************************************)
\* The level the run of errors lcRun is about.
RunLevel == LevelAt(Val(lcLevels), Val(lcRun).level)

\* The last error was taken down the path after the rotation: a switch down
\* was asked for, a retry was armed or the error was made fatal.
FellThrough ==
  \/ lcCall.fatal
  \/ lcCall.levelRetry
  \/ \E i \in 1..Len(lcOut) : lcOut[i].ev = "nextAutoLevel"

IsRounded(n, x2) == 2 * n - 1 <= x2 /\ x2 <= 2 * n

\* delay is the delay C7 gives, T being given in ms:
\* max(1000, round(T - latency)), T halved when the playlist ends where the
\* stored details ended.
C7_IsDelay(delay, T, sameEndSN, latency2) ==
  LET left2 == (IF sameEndSN THEN T ELSE 2 * T) - latency2
  IN \/ delay > 1000 /\ IsRounded(delay, left2)
     \/ delay = 1000 /\ (IsRounded(1000, left2) \/ left2 < 2 * 1000 - 1)

\* A step that handles LEVEL_LOADED arms, clears or leaves the timer as C7
\* says, T(reload) being the nominal interval in ms.
C7_Step(T(_)) ==
  lcCall'.op = "levelLoaded" =>
    LET stored == LevelAt(Val(lcLevels), lcCall'.level).details
        sameEndSN == stored # None /\ Val(stored).endSN = lcCall'.endSN
    IN IF lcLevel = Some(lcCall'.level) /\ lcCall'.live
       THEN /\ Len(lcOut') = 1
            /\ lcOut'[1].ev = "setTimeout"
            /\ C7_IsDelay(lcOut'[1].level, T(lcCall'.reload), sameEndSN,
                          lcCall'.reload.latency2)
            /\ lcOut'[1].level >= 1000
            /\ timer' # None /\ timerLive'
       ELSE IF lcLevel = Some(lcCall'.level)
       THEN timer' = None /\ ~timerLive' /\ lcOut' = <<>>
       ELSE UNCHANGED <<timer, timerLive>> /\ lcOut' = <<>>

C7_AverageOrTarget(reload) ==
  IF reload.avgMs # 0 THEN reload.avgMs ELSE 1000 * reload.targetduration

C7_Target(reload) == 1000 * reload.targetduration

Dispatched(out) == \E i \in DOMAIN out : out[i].ev = "FRAG_LOADING"

\* The handler triggered BUFFER_CODECS or BUFFER_APPENDING.
Buffered(out) ==
  \E i \in DOMAIN out : out[i].ev \in {"BUFFER_CODECS", "BUFFER_APPENDING"}

\* C1: in state FRAG_LOADING, PARSING or PARSED, neither a tick nor the
\* handler of AUDIO_TRACK_LOADED, KEY_LOADED, INIT_PTS_FOUND, BUFFER_APPENDED,
\* BUFFER_FLUSHED, ERROR or AUDIO_TRACK_SWITCHING dispatches the load of a
\* fragment while a fragment dispatched before is still in flight after the
\* handler (neither its load has failed nor the transmuxer has delivered
\* its last result) and has not been superseded by a switch of the audio
\* track.
C1_OneCycleInFlight ==
  [][(/\ state \in {"FRAG_LOADING", "PARSING", "PARSED"}
      /\ \/ ASCTick
         \/ OnAudioTrackLoaded
         \/ OnKeyLoaded
         \/ OnInitPtsFound
         \/ OnBufferAppended
         \/ OnBufferFlushed
         \/ ASCOnError
         \/ OnAudioTrackSwitching
      /\ Dispatched(ascOut'))
       => ~(\E j \in jobs : ~j.superseded /\ j \in jobs')]_vars

\* C2: in state ERROR, a tick, BUFFER_FLUSHED, BUFFER_APPENDED, KEY_LOADED,
\* AUDIO_TRACK_LOADED, INIT_PTS_FOUND and an error that comes in as not fatal
\* leave the state ERROR and dispatch no load.
C2_ErrorIsTerminal ==
  [][(/\ state = "ERROR"
      /\ \/ ASCTick
         \/ OnBufferFlushed
         \/ OnBufferAppended
         \/ OnKeyLoaded
         \/ OnAudioTrackLoaded
         \/ OnInitPtsFound
         \/ \E j \in jobs : OnFragLoadError(j, FALSE)
         \/ OnTrackOrKeyLoadError(FALSE)
         \/ \E parent \in {"audio", "main"}, mediaBuffered \in BOOLEAN :
              OnBufferFullError(parent, mediaBuffered)
         \/ OnUnrelatedError)
       => (state' = "ERROR" /\ ~Dispatched(ascOut'))]_vars

\* C3: after the k-th audio fragment load in a row to fail (not fatally)
\* since startLoad, k <= fragLoadingMaxRetry, the state is
\* FRAG_LOADING_WAITING_RETRY for a delay of
\* min(2^(k-1) * fragLoadingRetryDelay, fragLoadingMaxRetryTimeout), which is
\* at most fragLoadingMaxRetryTimeout and at least the delay after the
\* (k-1)-th failure.
C3_Delay(k) ==
  Min(Pow2(k - 1) * fragLoadingRetryDelay, fragLoadingMaxRetryTimeout)

C3_RetryBackoff ==
  [][(/\ \E j \in jobs : OnFragLoadError(j, FALSE)
      /\ ascStreak' # None
      /\ Val(ascStreak') <= fragLoadingMaxRetry)
       => (/\ state' = "FRAG_LOADING_WAITING_RETRY"
           /\ retryDate' = Some(C3_Delay(Val(ascStreak')))
           /\ Val(retryDate') <= fragLoadingMaxRetryTimeout
           /\ Val(ascStreak') > 1
                => Val(retryDate') >= C3_Delay(Val(ascStreak') - 1))]_vars

\* The second failure in a row waits for the capped delay.
C3_Witness ==
  /\ state = "FRAG_LOADING_WAITING_RETRY"
  /\ ascStreak = Some(2)
  /\ fragLoadError = 2
  /\ retryDate = Some(fragLoadingMaxRetryTimeout)
  /\ fragLoadingMaxRetryTimeout < 2 * fragLoadingRetryDelay

\* The handler set data.fatal.
Escalated(out) == \E i \in DOMAIN out : out[i].ev = "data.fatal"

\* C4: of the audio fragment loads that fail in a row (not fatally) after
\* startLoad, each of the first fragLoadingMaxRetry ones schedules a retry
\* and stays non-fatal, and the one after them schedules none, is made fatal
\* and puts the controller in state ERROR.
C4_RetryCeiling ==
  [][(/\ \E j \in jobs : OnFragLoadError(j, FALSE)
      /\ ascStreak' # None)
       => IF Val(ascStreak') <= fragLoadingMaxRetry
          THEN /\ ~Escalated(ascOut')
               /\ state' = "FRAG_LOADING_WAITING_RETRY"
               /\ retryDate' # None /\ Val(retryDate') > 0
          ELSE /\ Escalated(ascOut')
               /\ state' = "ERROR"
               /\ retryDate' = retryDate
               /\ fragLoadError' = fragLoadError]_vars

\* The failure after the fragLoadingMaxRetry-th has been made fatal.
C4_Witness ==
  /\ ascStreak = Some(fragLoadingMaxRetry + 1)
  /\ state = "ERROR"
  /\ Escalated(ascOut)
  /\ fragLoadError = fragLoadingMaxRetry

\* C5: a result the transmuxer delivers for a fragment whose load was
\* dispatched before a switch of the audio track is dropped: the handler
\* triggers neither BUFFER_CODECS nor BUFFER_APPENDING and leaves the state
\* as it is.
C5_SupersededResultDropped ==
  [][(ascResultOf' # None /\ Val(ascResultOf').superseded)
       => (state' = state /\ ~Buffered(ascOut'))]_vars


(***************************************************************************)
(*                        AACDemuxer: properties                           *)
(***************************************************************************)
RECURSIVE Flatten(_)
Flatten(segs) ==
  IF segs = <<>> THEN <<>> ELSE Head(segs).bytes \o Flatten(Tail(segs))

ParsedFrames == SelectSeq(aacParsed, LAMBDA seg : seg.kind = "frame")

\* The bytes demux has been given so far.
FedBytes == SubSeq(aacStream, 1, aacFed)

\* C11: demuxing is lossless across chunk boundaries.  The frames and ID3
\* tags demux has passed over, in order, followed by the cached bytes, are
\* the bytes it has been given, so that the frames followed by the cache are
\* the input without the parsed ID3 data; and every frame passed over has
\* become exactly one sample, whose unit is the frame without its header.
C11_Lossless ==
  audioTrack # None =>
    /\ Flatten(aacParsed) \o cachedData = FedBytes
    /\ Len(ParsedFrames) = aacTaken + Len(Val(audioTrack))
    /\ \A i \in 1..Len(Val(audioTrack)) :
         Val(audioTrack)[i].unit
           = SliceFrom(ParsedFrames[aacTaken + i].bytes,
                       ADTS_getHeaderLength(ParsedFrames[aacTaken + i].bytes, 0))

\* A demux call that found bytes cached, among them the start of a frame, and
\* emitted that frame.
C11_Witness ==
  /\ aacLast.cached > 0
  /\ aacLast.emitted > 0
  /\ cachedData # <<>>


\* A frame lies at offset, header and payload, and all of it is in data.
CompleteFrameAt(data, offset) ==
  /\ ADTS_isHeader(data, offset)
  /\ offset + 5 < Len(data)
  /\ ADTS_getFullFrameLength(data, offset) > ADTS_getHeaderLength(data, offset)
  /\ ADTS_getFullFrameLength(data, offset) <= Len(data) - offset

\* C12: every frame that is completely available at the end of a demux call
\* has been emitted by that call: what the call leaves in the cache does not
\* begin with a complete frame.  (Given two frames and the first three bytes
\* of a third, then the remaining bytes of the third, the second call is to
\* emit the third sample.)
C12_CompleteFramesEmitted ==
  aacLast.fed > 0 => ~CompleteFrameAt(cachedData, 0)

\* C13: bytes that begin neither an ADTS nor an ID3 header and precede a
\* complete frame are skipped and the frame is extracted: after a demux
\* call the cache does not hold such bytes followed by a complete frame with
\* more input behind it.
C13_SkipsToNextHeader ==
  aacLast.fed > 0 =>
    ~ /\ Len(cachedData) >= 10
      /\ ~ADTS_isHeader(cachedData, 0)
      /\ ~ID3_isHeader(cachedData, 0)
      /\ \E k \in 1..(Len(cachedData) - 1) :
           /\ CompleteFrameAt(cachedData, k)
           /\ ADTS_getFullFrameLength(cachedData, k) < Len(cachedData) - k


(***************************************************************************)
(*              AudioStreamController: the buffer is full                  *)
(***************************************************************************)
\* The fields of the controller and the config are as they were, and
\* nothing has been triggered.
NothingChanged ==
  /\ UNCHANGED <<state, levels, media, trackId, fragCurrent, fragPrevious,
                 fragLoadError, retryDate, audioSwitch, appended,
                 pendingBuffering, pendingData, videoTrackCC, audioInitPTS,
                 jobs, maxMaxBufferLength>>
  /\ ascOut' = <<>>

\* C14: BUFFER_FULL_ERROR of parent 'audio' in state PARSING or PARSED, the
\* position and the position + 0.5 s being buffered, puts the state to IDLE
\* and halves config.maxMaxBufferLength if it is at least
\* config.maxBufferLength, and leaves it as it is otherwise;
\* config.maxMaxBufferLength is never reduced to less than half of
\* config.maxBufferLength; BUFFER_FULL_ERROR in another state or of another
\* parent changes nothing.
C14_BufferFullHalves ==
  [][/\ (OnBufferFullError("audio", TRUE) /\ state \in {"PARSING", "PARSED"})
        => /\ state' = "IDLE"
           /\ ascOut' = <<>>
           /\ maxMaxBufferLength'.den * maxMaxBufferLength.num
                = maxMaxBufferLength'.num * maxMaxBufferLength.den
                    * (IF maxMaxBufferLength.num
                            >= maxBufferLength * maxMaxBufferLength.den
                       THEN 2 ELSE 1)
     /\ maxMaxBufferLength' # maxMaxBufferLength
        => 2 * maxMaxBufferLength'.num
             >= maxBufferLength * maxMaxBufferLength'.den
     /\ \A parent \in {"audio", "main"}, mediaBuffered \in BOOLEAN :
          (/\ OnBufferFullError(parent, mediaBuffered)
           /\ ~(parent = "audio" /\ state \in {"PARSING", "PARSED"}))
            => NothingChanged]_vars

\* BUFFER_FULL_ERRORs have halved config.maxMaxBufferLength until it is less
\* than config.maxBufferLength, and the state is IDLE.
C14_Witness ==
  /\ state = "IDLE"
  /\ maxMaxBufferLength.den > 1
  /\ maxMaxBufferLength.num < maxBufferLength * maxMaxBufferLength.den


\* C15: BUFFER_FULL_ERROR of parent 'audio' in state PARSING or PARSED, the
\* position not being buffered, clears fragCurrent, puts the state to
\* BUFFER_FLUSHING and asks for the audio buffer to be flushed; a tick in that
\* state changes nothing; BUFFER_FLUSHED then clears fragPrevious and puts
\* the state to IDLE, from where its tick selects a fragment afresh.
C15_FlushOnBufferFull ==
  [][/\ (OnBufferFullError("audio", FALSE) /\ state \in {"PARSING", "PARSED"})
        => /\ fragCurrent' = None
           /\ state' = "BUFFER_FLUSHING"
           /\ ascOut' = <<Ev("BUFFER_FLUSHING", -1, -1)>>
     /\ (ASCTick /\ state = "BUFFER_FLUSHING") => NothingChanged
     /\ (OnBufferFlushed /\ state = "BUFFER_FLUSHING" /\ fragCurrent = None)
        => /\ fragPrevious' = None
           /\ state' \notin {"BUFFER_FLUSHING", "PARSING", "PARSED"}]_vars


(***************************************************************************)
(*           AudioStreamController: the fragment is buffered               *)
(***************************************************************************)
\* How many times the handler triggered FRAG_BUFFERED for fragment f.
FragBuffered(out, f) ==
  Cardinality({i \in DOMAIN out :
                 out[i] = Ev("FRAG_BUFFERED", f.level, f.sn)})

\* The handler triggered FRAG_BUFFERED.
AnyFragBuffered(out) == \E i \in DOMAIN out : out[i].ev = "FRAG_BUFFERED"

\* The step ends the parsing of the current fragment: the handler is the one
\* of BUFFER_APPENDED or of the transmuxer's flush, and the state is neither
\* PARSING nor PARSED afterwards.
C16_LeavesParsed ==
  /\ state \in {"PARSING", "PARSED"}
  /\ state' \notin {"PARSING", "PARSED"}
  /\ OnBufferAppended \/ HandleTransmuxerFlush

C17_WaitsForInitPts ==
  [][(fragCurrent # None /\ state = "WAITING_INIT_PTS")
       => /\ (OnInitPtsFound /\ frag_cc(Val(fragCurrent)) \in audioInitPTS')
             => state' = "IDLE"
          /\ ((ASCTick \/ OnInitPtsFound) /\ state' # "WAITING_INIT_PTS")
             => /\ state' = "IDLE"
                /\ frag_cc(Val(fragCurrent)) \in audioInitPTS']_vars


\* levels[trackId].details is set, before and after the step.
ActiveDetails == details([levels |-> levels], trackId) # None
ActiveDetailsAfter == details([levels |-> levels'], trackId') # None

\* C18: the state becomes WAITING_TRACK on the first tick after startLoad
\* (from STARTING) or, from IDLE, when the active track has no details; a
\* tick and AUDIO_TRACK_LOADED leave WAITING_TRACK only if the active track
\* has details, so that AUDIO_TRACK_LOADED for another track id does not end
\* the wait.
C18_WaitsForActiveTrack ==
  [][/\ (state # "WAITING_TRACK" /\ state' = "WAITING_TRACK")
        => \/ ASCStartLoad \/ OnMediaAttached
           \/ ~ActiveDetailsAfter
     /\ (/\ state = "WAITING_TRACK"
         /\ trackId \in Tracks
         /\ state' # "WAITING_TRACK"
         /\ ASCTick \/ OnAudioTrackLoaded)
        => ActiveDetailsAfter]_vars


(***************************************************************************)
(*                 AudioStreamController: key loading                      *)
(***************************************************************************)
\* The fields of the controller but levels are as they were, and nothing
\* has been triggered.
NothingChangedButLevels ==
  /\ UNCHANGED <<state, media, trackId, fragCurrent, fragPrevious,
                 fragLoadError, retryDate, audioSwitch, appended,
                 pendingBuffering, pendingData, videoTrackCC, audioInitPTS,
                 jobs, maxMaxBufferLength>>
  /\ ascOut' = <<>>

\* The handler triggered KEY_LOADING.
KeyLoading(out) == \E i \in DOMAIN out : out[i].ev = "KEY_LOADING"

\* C19: the state becomes KEY_LOADING by the selection of a fragment of an
\* encrypted playlist of the active track, with KEY_LOADING triggered and no
\* load dispatched; a tick in KEY_LOADING changes nothing; KEY_LOADED in
\* KEY_LOADING puts the state to IDLE (its tick may go on from there, to
\* KEY_LOADING again only by triggering KEY_LOADING again); KEY_LOADED in
\* another state changes nothing.
C19_KeyLoading ==
  [][/\ (state # "KEY_LOADING" /\ state' = "KEY_LOADING")
        => /\ KeyLoading(ascOut')
           /\ ~Dispatched(ascOut')
           /\ ActiveDetailsAfter
           /\ Val(details([levels |-> levels'], trackId')).encrypted
     /\ KeyLoading(ascOut') => (state' = "KEY_LOADING" /\ ~Dispatched(ascOut'))
     /\ (ASCTick /\ state = "KEY_LOADING") => NothingChanged
     /\ (OnKeyLoaded /\ state = "KEY_LOADING")
        => (state' = "KEY_LOADING" => KeyLoading(ascOut'))
     /\ (OnKeyLoaded /\ state # "KEY_LOADING") => NothingChangedButLevels]_vars

\* A tick has selected an encrypted fragment.
C19_Witness ==
  /\ state = "KEY_LOADING"
  /\ KeyLoading(ascOut)
  /\ fragCurrent = None


\* C20: a tick in state FRAG_LOADING_WAITING_RETRY puts the state to IDLE if
\* the retry date is not set or has been reached or the media is seeking,
\* and leaves the state as it is otherwise; it changes nothing else and
\* triggers nothing.
C20_RetryWait ==
  [][(state = "FRAG_LOADING_WAITING_RETRY" /\ ASCTick)
       => /\ state' = IF \/ retryDate = None
                        \/ retryDate = Some(0)
                        \/ (media /\ ascSeeking')
                     THEN "IDLE" ELSE "FRAG_LOADING_WAITING_RETRY"
          /\ UNCHANGED <<levels, media, trackId, fragCurrent, fragPrevious,
                         fragLoadError, retryDate, audioSwitch, appended,
                         pendingBuffering, pendingData, videoTrackCC,
                         audioInitPTS, jobs, maxMaxBufferLength>>
          /\ ascOut' = <<>>]_vars

\* A tick has ended the wait before the retry date because the media is
\* seeking.
C20_Witness ==
  /\ state = "IDLE"
  /\ ascSeeking
  /\ retryDate # None
  /\ retryDate # Some(0)


(***************************************************************************)
(*           AudioStreamController: the audio track is switched            *)
(***************************************************************************)
\* The handler triggered BUFFER_APPENDING.
Appending(out) == \E i \in DOMAIN out : out[i].ev = "BUFFER_APPENDING"

\* The handler triggered BUFFER_FLUSHING.
Flushing(out) == \E i \in DOMAIN out : out[i].ev = "BUFFER_FLUSHING"

\* C21: while the switch to an alternate track is pending, nothing is
\* appended; the switch ends only when data of the new track is parsed that
\* starts at or before the playback position, with the state BUFFER_FLUSHING
\* and the flush of the audio buffer asked for; BUFFER_FLUSHED then appends
\* what was held, the init segment first.
C21_SwitchAppendsAfterFlush ==
  [][/\ audioSwitch => ~Appending(ascOut')
     /\ (audioSwitch /\ ~audioSwitch' /\ HandleTransmuxComplete)
        => /\ state' = "BUFFER_FLUSHING"
           /\ Flushing(ascOut')
           /\ pendingData' # <<>>
     /\ (state = "BUFFER_FLUSHING" /\ pendingData # <<>> /\ OnBufferFlushed)
        => /\ Len(SelectSeq(ascOut', LAMBDA e : e.ev = "BUFFER_APPENDING"))
                = Len(pendingData)
           /\ \A i \in 2..Len(pendingData) : pendingData[i] # "initSegment"
           /\ pendingData' = <<>>]_vars



\* The tick a handler ends with selects a fragment and dispatches its load,
\* with the switch pending.
C22_SelectsInSwitch == audioSwitch' /\ Dispatched(ascOut')

\* The position the selection starts from: the start of the playlist if the
\* track is live and its PTS is not known, the playback position otherwise.
C22_Anchor ==
  LET trackDetails == Val(details([levels |-> levels'], trackId'))
  IN IF trackDetails.live /\ ~trackDetails.PTSKnown THEN 0 ELSE ascPos'

LevelLoading(out) == \E i \in 1..Len(out) : out[i].ev = "LEVEL_LOADING"

\* The step assigns newLevel, an index of the level list, through the level
\* setter.
Assigns(newLevel) ==
  /\ ValidLevel(newLevel)
  /\ lcCall'.level = newLevel
  /\ lcCall'.op \in {"setLevel", "setManualLevel", "setNextLoadLevel"}
  /\ SetLevel \/ SetManualLevel \/ SetNextLoadLevel

\* C23 (amended): assigning a level other than the current one triggers
\* LEVEL_LOADING, for that level and its selected URL, if and only if the
\* level has no cached details or its cached details are live; assigning the
\* current level again triggers it if and only if the level has no cached
\* details.
C23_LoadsOnAssign ==
  [][\A newLevel \in LevelInputs :
       Assigns(newLevel) =>
         LET level == LevelAt(Val(lcLevels), newLevel)
             due == \/ level.details = None
                    \/ lcLevel # Some(newLevel) /\ Val(level.details).live
         IN /\ LevelLoading(lcOut') <=> due
            /\ \A i \in 1..Len(lcOut') :
                 lcOut'[i].ev = "LEVEL_LOADING"
                   => lcOut'[i] = Ev("LEVEL_LOADING", newLevel, level.urlId)]_vars

\* C23 witness: a level whose live details are cached has been assigned, and
\* LEVEL_LOADING was triggered for it.
C23_Witness ==
  /\ lcCall.op = "setLevel"
  /\ lcLevel = Some(lcCall.level)
  /\ LevelLoading(lcOut)
  /\ LevelAt(Val(lcLevels), lcCall.level).details # None
  /\ Val(LevelAt(Val(lcLevels), lcCall.level).details).live

\* C23: assigning a level triggers LEVEL_LOADING if and only if the level
\* has no cached details or its cached details are live.
C23_LoadsIffUncachedOrLive ==
  [][\A newLevel \in LevelInputs :
       Assigns(newLevel) =>
         LET level == LevelAt(Val(lcLevels), newLevel)
         IN LevelLoading(lcOut')
              <=> (level.details = None \/ Val(level.details).live)]_vars

(***************************************************************************)
(*              LevelController: manual and automatic levels               *)
(***************************************************************************)
\* The values hls.nextAutoLevel is assigned by the last handler, in order.
AutoLevelWrites(out) ==
  SelectSeq(out, LAMBDA e : e.ev = "nextAutoLevel")

\* C24: while a manual level is pinned, nextLoadLevel reads as the manual
\* level whatever hls.nextAutoLevel reads as, and writing nextLoadLevel
\* neither unpins it nor assigns hls.nextAutoLevel; while none is pinned,
\* nextLoadLevel reads as hls.nextAutoLevel and writing it assigns the
\* written value to hls.nextAutoLevel.
C24_ManualOverridesAuto ==
  [][/\ \A nextAutoLevel \in LevelInputs :
          nextLoadLevel(nextAutoLevel)'
            = IF manualLevel' # -1 THEN manualLevel' ELSE nextAutoLevel
     /\ (lcCall'.op = "setNextLoadLevel" /\ SetNextLoadLevel) =>
          /\ manualLevel' = manualLevel
          /\ AutoLevelWrites(lcOut')
               = IF manualLevel # -1 THEN <<>>
                 ELSE <<Ev("nextAutoLevel", lcCall'.level, -1)>>]_vars

\* C24 witness: with a manual level pinned, another level has been written
\* to nextLoadLevel, which still reads as the manual level.
C24_Witness ==
  /\ lcCall.op = "setNextLoadLevel"
  /\ manualLevel # -1
  /\ lcCall.level # manualLevel
  /\ ValidLevel(lcCall.level)
  /\ nextLoadLevel(lcCall.level) = manualLevel
  /\ AutoLevelWrites(lcOut) = <<>>

(***************************************************************************)
(*               LevelController: the switch down on error                 *)
(***************************************************************************)
\* The step delivers a non-fatal load error of a fragment, a key or a
\* playlist of level i, for which no redundant URL is left to try.
LoadErrorWithoutRotation(i) ==
  /\ ValidLevel(i)
  /\ lcCall'.op = "error"
  /\ lcCall'.level = i
  /\ lcCall'.kind \in {"frag", "audioFrag", "level"}
  /\ LET level == LevelAt(Val(lcLevels), i)
     IN ~onError_rotates(Len(level.url), level.loadError + 1)
  /\ LCOnError

\* C25: when no untried redundant URL remains for level i, a non-fatal load
\* error of a fragment, a key or the playlist of level i assigns
\* max(0, i - 1) to hls.nextAutoLevel if no manual level is pinned and i is
\* not 0, and does not assign hls.nextAutoLevel otherwise.
C25_SwitchDown ==
  [][\A i \in LevelInputs :
       LoadErrorWithoutRotation(i) =>
         AutoLevelWrites(lcOut')
           = IF manualLevel = -1 /\ i # 0
             THEN <<Ev("nextAutoLevel", Max(0, i - 1), -1)>>
             ELSE <<>>]_vars

\* C25 witness: with no manual level pinned, an error on level 1, both of
\* whose URLs have been tried, has assigned 0 to hls.nextAutoLevel.
C25_Witness ==
  /\ lcCall.op = "error"
  /\ lcCall.level = 1
  /\ manualLevel = -1
  /\ Len(LevelAt(Val(lcLevels), 1).url) = 2
  /\ LevelAt(Val(lcLevels), 1).loadError = 2
  /\ lcOut = <<Ev("nextAutoLevel", 0, -1)>>

(***************************************************************************)
(*             LevelController: the playlist load that fails               *)
(***************************************************************************)
\* The step delivers a non-fatal load error of the playlist of level i, for
\* which no redundant URL is left to try and from which no switch down is
\* possible.
LevelErrorWithoutRecovery(i) ==
  /\ ValidLevel(i)
  /\ lcCall'.op = "error"
  /\ lcCall'.level = i
  /\ lcCall'.kind = "level"
  /\ LET level == LevelAt(Val(lcLevels), i)
     IN ~onError_rotates(Len(level.url), level.loadError + 1)
  /\ ~onError_switchesDown(manualLevel, i)
  /\ LCOnError

\* C26: a non-fatal playlist load error with neither URL rotation nor switch
\* down possible arms the retry timer with levelLoadingRetryDelay and stays
\* non-fatal if the level is live and the media is buffered at the current
\* time; otherwise it is made fatal, the current level is unset and the
\* reload timer is cleared.
C26_RetryOrFatal ==
  [][\A i \in LevelInputs :
       LevelErrorWithoutRecovery(i) =>
         LET level == LevelAt(Val(lcLevels), i)
             live == level.details # None /\ Val(level.details).live
         IN IF live /\ lcCall'.mediaBuffered
            THEN /\ lcOut' = <<Ev("setTimeout", levelLoadingRetryDelay, -1)>>
                 /\ timer' = TimerHandle
                 /\ ~lcCall'.fatal
            ELSE /\ lcCall'.fatal
                 /\ lcLevel' = None
                 /\ timer' = None]_vars

(***************************************************************************)
(*                 LevelController: the manifest is loaded                 *)
(***************************************************************************)
\* The manifest entries a level is made of: the first entry of each bitrate.
FirstOfBitrate(entries) ==
  {i \in 1..Len(entries) :
     \A k \in 1..(i - 1) : entries[k].bitrate # entries[i].bitrate}

\* The entries whose level is retained: it is not an audio-only level of a
\* manifest that signals video and audio codecs, and its codecs are
\* supported.
Retained(entries) ==
  LET videoCodecFound ==
        \E k \in 1..Len(entries) : entries[k].videoCodec # "none"
      audioCodecFound ==
        \E k \in 1..Len(entries) : entries[k].audioCodec # "none"
  IN {i \in FirstOfBitrate(entries) :
        /\ (videoCodecFound /\ audioCodecFound)
             => entries[i].videoCodec # "none"
        /\ entries[i].videoCodec # "bad"
        /\ entries[i].audioCodec # "bad"}

\* The places, in the manifest, of the entries of a bitrate, in order.
RECURSIVE UrlsOf(_, _, _)
UrlsOf(entries, bitrate, i) ==
  IF i > Len(entries) THEN <<>>
  ELSE (IF entries[i].bitrate = bitrate THEN <<i>> ELSE <<>>)
         \o UrlsOf(entries, bitrate, i + 1)

ManifestParsed(out) == \E i \in 1..Len(out) : out[i].ev = "MANIFEST_PARSED"

C29_EmptyPayload ==
  [][(ptrCall'.op = "remux") =>
       /\ ptrCall'.empty =>
            /\ ptrOut' # None
            /\ Val(ptrOut').audio = None
            /\ Val(ptrOut').video = None
            /\ Val(ptrOut').initSegment = None
            /\ emitInitSegment' = emitInitSegment
            /\ UNCHANGED <<initData, initTracks, initPTS>>
       /\ (ptrCall.op = "remux" /\ ptrCall.empty /\ ptrResetPending
            /\ ~ptrCall'.empty) => CarriesTracks(ptrOut')]_vars

\* C29 witness: with an emission pending, remux has been called with a
\* payload without samples, and the emission is still pending.
C29_Witness ==
  /\ ptrCall.op = "remux"
  /\ ptrCall.empty
  /\ ptrResetPending
  /\ emitInitSegment
  /\ ptrOut # None
  /\ Val(ptrOut).initSegment = None

(***************************************************************************)
(*             LevelController: an index outside the level list            *)
(***************************************************************************)
\* The step assigns newLevel, which is no index of the stored level list,
\* to hls.currentLevel / hls.loadLevel.
AssignsInvalid(newLevel) ==
  /\ lcLevels # None
  /\ ~ValidLevel(newLevel)
  /\ lcCall'.op = "setLevel"
  /\ lcCall'.level = newLevel
  /\ SetLevel

PendingTimers == (IF timerLive THEN 1 ELSE 0) + orphanTimers

\* C34: at any time at most one timeout armed by the level controller is
\* pending.
C34_OneTimerPending == PendingTimers <= 1


\* C35: a BUFFER_FLUSHED event received in STOPPED, PAUSED, ENDED,
\* FRAG_LOADING, KEY_LOADING, PARSING or PARSED leaves the state and
\* fragPrevious as they are and dispatches no fragment load.
C35_FlushedOnlyInFlushing ==
  [][(/\ state \in {"STOPPED", "PAUSED", "ENDED", "FRAG_LOADING",
                    "KEY_LOADING", "PARSING", "PARSED"}
      /\ OnBufferFlushed)
     => /\ state' = state
        /\ fragPrevious' = fragPrevious
        /\ ~Dispatched(ascOut')]_vars


\* The continuity counter of the fragment the event e is about.
CcOf(e) == frag_cc([level |-> e.level, sn |-> e.id])

Switched(out) == \E i \in DOMAIN out : out[i].ev = "AUDIO_TRACK_SWITCHED"

\* C37: AUDIO_TRACK_SWITCHED is triggered once, by a handler that finds
\* audioSwitch set and clears it, and that handler is the one the transmuxer
\* gives a result of a fragment of the new track to (audioSwitch being set,
\* no media data has been taken since AUDIO_TRACK_SWITCHING: taking it clears
\* the flag); audioSwitch is set again only by a switch of the track.
C37_SwitchedAfterData ==
  [][/\ Switched(ascOut')
        => /\ Cardinality({i \in DOMAIN ascOut' :
                             ascOut'[i].ev = "AUDIO_TRACK_SWITCHED"}) = 1
           /\ audioSwitch /\ ~audioSwitch'
           /\ ascResultOf' # None
           /\ Val(ascResultOf').level = trackId'
     /\ (~audioSwitch /\ audioSwitch') => trackId' # trackId]_vars


\* C39: flush leaves the cache empty and the frame index at 0, so that the
\* next demux call has no bytes of an earlier call to prepend.
C39_FlushEndsSession ==
  [][AACFlush => cachedData' = <<>> /\ frameIndex' = 0]_vars


\* C38: a load error of an audio fragment that comes in as not fatal leaves
\* every level's loadError, fragmentError, urlId and details as they are, and
\* nextAutoLevel is not written.
C38_AudioErrorLeavesLevels ==
  [][(lcCall'.op = "error" /\ lcCall'.kind = "audioFrag")
     => lcLevels' = lcLevels /\ AutoLevelWrites(lcOut') = <<>>]_vars


\* A session of the timeline controller: manifests with up to two subtitle
\* tracks, any setting of enableWebVTT and renderNatively.
InitSpecTimeline ==
  InitPTR /\ InitLC /\ InitASC /\ InitAAC /\ InitTimeline
  /\ lcManifests = {} /\ ascPlaylists = {} /\ ascVideoCCs = {}
  /\ aacStream = <<>>
  /\ maxMaxBufferLength = MaxMaxBelow
  /\ tcSubtitles = SubtitleLists
  /\ tcConfig \in TimelineConfigs

SpecTimeline == InitSpecTimeline /\ [][NextTimeline]_vars





\* The step is onManifestLoaded on a controller that renders the WebVTT
\* subtitles natively and has a media element.
LoadedNatively ==
  /\ tcCall'.op = "manifestLoaded"
  /\ tcConfig.enableWebVTT /\ tcConfig.renderNatively
  /\ tcMedia

NamesOf(ts) == {ts[i].name : i \in DOMAIN ts}

\* The media has a text track that is not a captions track and whose label
\* is name.
HasTextTrack(name) ==
  \E k \in DOMAIN mediaTextTracks :
    mediaTextTracks[k].label = name /\ ~mediaTextTracks[k].captions

\* C31: onManifestLoaded, rendering natively with WebVTT enabled, leaves in
\* this.textTracks one text track per subtitle track of the manifest, in the
\* order of the manifest, labelled with its name and not a captions track; a
\* subtitle track whose name is the label of a text track the media already
\* has (not a captions track) is given a track the media already has; and a
\* manifest with the names of the manifest before does not add a text track
\* to the media.
C31_ReusesTextTracks ==
  [][LoadedNatively
     => /\ Len(textTracks') = Len(tcTracks')
        /\ \A i \in DOMAIN tcTracks' :
             /\ mediaTextTracks'[textTracks'[i]].label = tcTracks'[i].name
             /\ ~mediaTextTracks'[textTracks'[i]].captions
             /\ HasTextTrack(tcTracks'[i].name)
                  => textTracks'[i] <= Len(mediaTextTracks)
        /\ (/\ Len(textTracks) = Len(tcTracks)
            /\ NamesOf(tcTracks) = NamesOf(tcTracks'))
           => Len(mediaTextTracks') = Len(mediaTextTracks)]_vars

\* C32: after onManifestLoaded, rendering natively, the text track of every
\* subtitle track that is not the default has mode 'disabled', and that of a
\* default track has mode 'showing' if hls.subtitleDisplay is set and
\* 'hidden' if it is not.
C32_DefaultTrackMode ==
  [][LoadedNatively
     => \A i \in DOMAIN tcTracks' :
          mediaTextTracks'[textTracks'[i]].mode =
            IF ~tcTracks'[i].default THEN "disabled"
            ELSE IF tcCall'.subtitleDisplay THEN "showing"
            ELSE "hidden"]_vars

=============================================================================
